---- MODULE Spec2Model ----
(***************************************************************************)
(* Vision PAL cognition engine: the affect state machine                   *)
(* (Cognition/affect.py), the memory-recall cache (Cognition/              *)
(* memory_recall.py) and the cognitive loop with its speech workers        *)
(* (Cognition/cognitive_loop.py).                                          *)
(*                                                                         *)
(* Time is in whole seconds.  time.time() is the variable now; every       *)
(* operation reads the clock once where the code reads it, and the time    *)
(* that passes between two operations is an input drawn from a small set.  *)
(***************************************************************************)
EXTENDS Integers, Sequences, FiniteSets, TLC

VARIABLES
    now,              \* time.time()
    \* ---- Affect (affect.py) ----
    current_emotion, valence, arousal, history,
    person_seen_at, collision_at, moving_since, idle_since,
    obs,              \* observation of the Affect.update calls made so far
    \* ---- MemoryRecall (memory_recall.py) ----
    recall_cache,     \* the dict, as the sequence of its items in dict order
    mobs,             \* observation of the search_memory calls made so far
    vobs,             \* observation of the build_visual_data call made
    \* ---- CognitiveLoop speech (cognitive_loop.py) ----
    tts_enabled, last_monologue, last_monologue_time,
    tts_lock,         \* 0 when free, else the index of the worker holding it
    workers,          \* the _speak_impl threads started so far, in order
    sobs,             \* observation of the speak calls made so far
    \* ---- Perception (perception.py) ----
    last_data, last_update,
    plock,            \* Perception._lock: free, or the thread that holds it
    writer,           \* the transport thread inside on_mqtt_message
    reader,           \* the thread inside get_perception_data, and its result
    pobs,             \* observation of the snapshots delivered and stored
    \* ---- CognitiveLoop (cognitive_loop.py) ----
    has_mqtt,         \* HAS_MQTT: the paho import succeeded
    mqtt_client,      \* FALSE for None
    mqtt_connected, running, cycle_count, last_emotion,
    last_query, last_recall,    \* MemoryRecall fields written by recall
    pc,               \* where the driver is: idle, cycle, sleep, stopped, raised
    interrupted,      \* a KeyboardInterrupt was delivered to the driver
    cobs,             \* observation of the loop's iterations so far
    \* ---- PromptBuilder (prompt_builder.py) ----
    bobs,             \* observation of the _build_scene_desc call made
    \* ---- collision detector (JetBot/collision_detect.py) ----
    still_count, collision_cooldown,
    kpc,              \* where main is: loop, or ended
    kobs              \* observation of the frames read so far

affectVars == <<current_emotion, valence, arousal, history,
                person_seen_at, collision_at, moving_since, idle_since, obs>>

memoryVars == <<recall_cache, mobs, vobs>>

speechVars == <<tts_enabled, last_monologue, last_monologue_time,
                tts_lock, workers, sobs>>

perceptionVars == <<last_data, last_update, plock, writer, reader, pobs>>

loopVars == <<has_mqtt, mqtt_client, mqtt_connected, running, cycle_count,
              last_emotion, last_query, last_recall, pc, interrupted, cobs>>

promptVars == <<bobs>>

collisionVars == <<still_count, collision_cooldown, kpc, kobs>>

\* the objects that no part of the cognitive loop's driver writes
asideVars == <<promptVars, collisionVars>>

vars == <<now, affectVars, memoryVars, speechVars, perceptionVars, loopVars,
          asideVars>>

----------------------------------------------------------------------------
(* Bounds of the exploration *)

\* the epoch second at which the objects are constructed (time.time() > 0)
StartTime == 1000
\* the number of Affect.update calls explored in one behaviour
MaxUpdates == 4

\* seconds that may pass between two calls
UpdateGaps == {1, 2, 61}

\* the number of search_memory calls explored in one behaviour
MaxSearches == 4
\* the cache's size limit (50 in memory_recall.py:40), scaled down
CacheLimit == 2
\* the length of the cache key (80 characters in memory_recall.py:30),
\* scaled down and counted in words
KeyLen == 2
\* seconds a remote search takes before it returns or raises
RemoteLatency == 1
\* the number of search_memory calls explored with an unreliable environment
MaxOutageSearches == 2
\* the number of speak calls explored in one behaviour
MaxSpeaks == 3
\* the number of loop iterations explored in one behaviour
MaxCycles == 3
\* the number of iterations in which run_cycle raises
MaxFaults == 1
\* a sleep that lasts longer than the interval, in seconds
LongSleep == 58
\* the number of perception messages explored in one behaviour
MaxMessages == 2
\* the number of snapshots delivered to a running loop in one behaviour
MaxDeliveries == 1
\* the number of get_perception_data calls explored in one behaviour
MaxReads == 2
\* the number of times the clock advances between the steps of the
\* perception threads
MaxTicks == 2
\* the longest list of memories handed to build_visual_data
MaxMemories == 4

----------------------------------------------------------------------------
(* Cognition/config.py, EMOTIONS: valence and arousal in thousandths *)

EmotionNames == {"curious", "excited", "calm", "anxious", "happy",
                 "lonely", "startled", "bored"}

EMOTIONS ==
    [e \in EmotionNames |->
        CASE e = "curious"  -> [valence |-> 700, arousal |-> 500]
          [] e = "excited"  -> [valence |-> 900, arousal |-> 800]
          [] e = "calm"     -> [valence |-> 500, arousal |-> 200]
          [] e = "anxious"  -> [valence |-> 300, arousal |-> 700]
          [] e = "happy"    -> [valence |-> 900, arousal |-> 600]
          [] e = "lonely"   -> [valence |-> 200, arousal |-> 200]
          [] e = "startled" -> [valence |-> 300, arousal |-> 900]
          [] e = "bored"    -> [valence |-> 400, arousal |-> 100]]

----------------------------------------------------------------------------
(* Affect.update, affect.py:22-99 *)

STARTLED_WINDOW == 3
PERSON_RECENT_WINDOW == 30
MOVING_EXCITED_AFTER == 10
IDLE_LONELY_AFTER == 120
IDLE_BORED_AFTER == 60
HISTORY_MAX == 10

MotorStates == {"running", "stopped"}

BookkeepKeepOther(t, has_person, motor_state, collision) ==
    [person_seen_at |-> IF has_person THEN t ELSE person_seen_at,
     collision_at   |-> IF collision THEN t ELSE collision_at,
     moving_since   |-> IF motor_state = "running"
                        THEN (IF moving_since = 0 THEN t ELSE moving_since)
                        ELSE moving_since,
     idle_since     |-> IF motor_state = "running"
                        THEN idle_since
                        ELSE (IF idle_since = 0 THEN t ELSE idle_since)]

BookkeepRestart(t, has_person, motor_state, collision) ==
    [person_seen_at |-> IF has_person THEN t ELSE person_seen_at,
     collision_at   |-> IF collision THEN t ELSE collision_at,
     moving_since   |-> IF motor_state = "running" THEN t ELSE 0,
     idle_since     |-> IF motor_state = "running" THEN 0 ELSE t]

\* event bookkeeping, affect.py:29-43: the timestamps after the call's events
Bookkeep(t, has_person, motor_state, collision) ==
    [person_seen_at |-> IF has_person THEN t ELSE person_seen_at,
     collision_at   |-> IF collision THEN t ELSE collision_at,
     moving_since   |-> IF motor_state = "running"
                        THEN (IF moving_since = 0 THEN t ELSE moving_since)
                        ELSE 0,
     idle_since     |-> IF motor_state = "running"
                        THEN 0
                        ELSE (IF idle_since = 0 THEN t ELSE idle_since)]

ClassifyMotorBeforeRecent(t, has_person, motor_state, b) ==
    IF t - b.collision_at < STARTLED_WINDOW THEN "startled"
    ELSE IF has_person THEN "happy"
    ELSE IF motor_state = "running"
         THEN (IF t - b.moving_since > MOVING_EXCITED_AFTER
               THEN "excited" ELSE "curious")
    ELSE IF t - b.person_seen_at < PERSON_RECENT_WINDOW /\ b.person_seen_at > 0
         THEN "excited"
    ELSE IF b.idle_since > 0
         THEN (IF t - b.idle_since > IDLE_LONELY_AFTER THEN "lonely"
               ELSE IF t - b.idle_since > IDLE_BORED_AFTER THEN "bored"
               ELSE "calm")
    ELSE "calm"

ClassifyPersonFirst(t, has_person, motor_state, b) ==
    IF has_person THEN "happy"
    ELSE IF t - b.collision_at < STARTLED_WINDOW THEN "startled"
    ELSE IF t - b.person_seen_at < PERSON_RECENT_WINDOW /\ b.person_seen_at > 0
         THEN "excited"
    ELSE IF motor_state = "running"
         THEN (IF t - b.moving_since > MOVING_EXCITED_AFTER
               THEN "excited" ELSE "curious")
    ELSE IF b.idle_since > 0
         THEN (IF t - b.idle_since > IDLE_LONELY_AFTER THEN "lonely"
               ELSE IF t - b.idle_since > IDLE_BORED_AFTER THEN "bored"
               ELSE "calm")
    ELSE "calm"

\* the raw emotion, affect.py:45-76: the first matching rule
Classify(t, has_person, motor_state, b) ==
    IF t - b.collision_at < STARTLED_WINDOW THEN "startled"
    ELSE IF has_person THEN "happy"
    ELSE IF t - b.person_seen_at < PERSON_RECENT_WINDOW /\ b.person_seen_at > 0
         THEN "excited"
    ELSE IF motor_state = "running"
         THEN (IF t - b.moving_since > MOVING_EXCITED_AFTER
               THEN "excited" ELSE "curious")
    ELSE IF b.idle_since > 0
         THEN (IF t - b.idle_since > IDLE_LONELY_AFTER THEN "lonely"
               ELSE IF t - b.idle_since > IDLE_BORED_AFTER THEN "bored"
               ELSE "calm")
    ELSE "calm"

CommitDebounceAll(emotion) ==
    IF emotion # current_emotion
    THEN (IF history # <<>> /\ history[Len(history)] = emotion
          THEN emotion ELSE current_emotion)
    ELSE emotion

CommitAtOnce(emotion) == emotion

\* the committed emotion, affect.py:78-86: startled and the current emotion
\* are applied at once, any other raw value only when it repeats the last one
Commit(emotion) ==
    IF emotion # "startled" /\ emotion # current_emotion
    THEN (IF history # <<>> /\ history[Len(history)] = emotion
          THEN emotion ELSE current_emotion)
    ELSE emotion

\* history.append(emotion), oldest dropped beyond 10: affect.py:88-91
PushHistory(emotion) ==
    LET h == Append(history, emotion)
    IN  IF Len(h) > HISTORY_MAX THEN Tail(h) ELSE h

SmoothOvershoot(value, target) == value + (target - value) * 3

\* value += (target - value) * 0.3, affect.py:93-97, in thousandths
Smooth(value, target) ==
    LET d == (target - value) * 3
    IN  value + (IF d >= 0 THEN d \div 10 ELSE -((-d) \div 10))

\* Affect.update(perception_data, motor_state, collision) at time t
AffectUpdate(t, has_person, motor_state, collision) ==
    LET b        == Bookkeep(t, has_person, motor_state, collision)
        emotion  == Classify(t, has_person, motor_state, b)
        commit   == Commit(emotion)
    IN  /\ person_seen_at' = b.person_seen_at
        /\ collision_at' = b.collision_at
        /\ moving_since' = b.moving_since
        /\ idle_since' = b.idle_since
        /\ current_emotion' = commit
        /\ history' = PushHistory(emotion)
        /\ valence' = Smooth(valence, EMOTIONS[commit].valence)
        /\ arousal' = Smooth(arousal, EMOTIONS[commit].arousal)
        /\ obs' = [calls        |-> obs.calls + 1,
                   collision    |-> collision,
                   has_person   |-> has_person,
                   motor_state  |-> motor_state,
                   raw          |-> emotion,
                   prev_raw     |-> obs.raw,
                   prev_emotion |-> current_emotion,
                   returned     |-> commit,
                   collided_at  |-> IF collision THEN t ELSE obs.collided_at]

\* one call of Affect.update, made gap seconds after the previous operation
Update ==
    /\ obs.calls < MaxUpdates
    /\ UNCHANGED <<memoryVars, asideVars, speechVars, perceptionVars, loopVars>>
    /\ \E gap \in UpdateGaps, has_person \in BOOLEAN,
          motor_state \in MotorStates, collision \in BOOLEAN :
         /\ now' = now + gap
         /\ AffectUpdate(now + gap, has_person, motor_state, collision)

AffectInit ==
    /\ current_emotion = "calm"
    /\ valence = 500
    /\ arousal = 200
    /\ history = <<>>
    /\ person_seen_at = 0
    /\ collision_at = 0
    /\ moving_since = 0
    /\ idle_since = StartTime
    /\ obs = [calls |-> 0, collision |-> FALSE, has_person |-> FALSE,
              motor_state |-> "stopped", raw |-> "none", prev_raw |-> "none",
              prev_emotion |-> "calm", returned |-> "calm", collided_at |-> 0]

----------------------------------------------------------------------------
(* MemoryRecall.search_memory, memory_recall.py:27-47 *)

CACHE_TTL == 30
MAX_RESULTS == 5

CacheKeyWhole(query) == query

\* a query is a sequence of words; query[:80] keeps its first KeyLen words
CacheKey(query) ==
    IF Len(query) > KeyLen THEN SubSeq(query, 1, KeyLen) ELSE query

\* cache_key in self.recall_cache
CacheIndex(cache, key) ==
    IF \E i \in 1..Len(cache) : cache[i].key = key
    THEN CHOOSE i \in 1..Len(cache) : cache[i].key = key
    ELSE 0

CacheFreshInclusive(t, cached_time) == t - cached_time <= CACHE_TTL

\* time.time() - cached_time < self.cache_ttl, memory_recall.py:33
CacheFresh(t, cached_time) == t - cached_time < CACHE_TTL

\* self.recall_cache[cache_key] = (time.time(), results): an existing key
\* keeps its place in the dict, a new key goes last
CachePut(cache, key, t, results) ==
    LET i == CacheIndex(cache, key)
        e == [key |-> key, time |-> t, results |-> results]
    IN  IF i = 0 THEN Append(cache, e) ELSE [cache EXCEPT ![i] = e]

RemoveAt(seq, i) == SubSeq(seq, 1, i - 1) \o SubSeq(seq, i + 1, Len(seq))

OldestFirstInserted(cache) == 1

\* min(self.recall_cache, key=lambda k: self.recall_cache[k][0]): the first
\* item in dict order among those of the smallest time
Oldest(cache) ==
    CHOOSE i \in 1..Len(cache) :
        /\ \A j \in 1..Len(cache) : cache[i].time <= cache[j].time
        /\ \A j \in 1..(i - 1) : cache[j].time > cache[i].time

\* memory_recall.py:40-42: one item is deleted when the dict is over the limit
CacheEvict(cache) ==
    IF Len(cache) > CacheLimit THEN RemoveAt(cache, Oldest(cache)) ELSE cache

\* memory_recall.py:38-42: store, then evict one item beyond the limit
CacheStore(cache, key, t, results) ==
    CacheEvict(CachePut(cache, key, t, results))

CacheHitRefresh(cache, i, t) == [cache EXCEPT ![i].time = t]

\* memory_recall.py:31-34: a hit returns the cached result and writes nothing
CacheHit(cache, i, t) == cache

----------------------------------------------------------------------------
(* MemoryRecall._search_files_fallback, memory_recall.py:98-136 *)

\* files_to_search in its order: MEMORY.md, then the newest daily notes
FallbackFiles == <<"MEMORY.md", "2026-02-14.md", "2026-02-13.md">>

\* the paragraphs of each file, each with the words it contains
FileParagraphs ==
    [f \in {FallbackFiles[i] : i \in 1..Len(FallbackFiles)} |->
        CASE f = "MEMORY.md" ->
                <<[text |-> "pal was born", words |-> {"pal", "born"}],
                  [text |-> "guitar session with haruto",
                   words |-> {"guitar", "session", "haruto"}]>>
          [] f = "2026-02-14.md" ->
                <<[text |-> "night research", words |-> {"night", "research"}],
                  [text |-> "guitar practice", words |-> {"guitar", "practice"}]>>
          [] f = "2026-02-13.md" ->
                <<[text |-> "wall collision", words |-> {"wall", "collision"}]>>]

\* sum(1 for kw in keywords if kw in para_lower)
KeywordHits(keywords, para) ==
    Cardinality({i \in 1..Len(keywords) : keywords[i] \in para.words})

\* the hits of one file's paragraphs, in order: memory_recall.py:120-131
RECURSIVE ParagraphHits(_, _, _)
ParagraphHits(keywords, path, paras) ==
    IF paras = <<>> THEN <<>>
    ELSE LET n    == KeywordHits(keywords, Head(paras))
             rest == ParagraphHits(keywords, path, Tail(paras))
             kwn  == IF Len(keywords) > 1 THEN Len(keywords) ELSE 1
         IN  IF n > 0
             THEN <<[text |-> Head(paras).text, path |-> path,
                     source |-> "fallback",
                     score |-> (n * 1000) \div kwn]>> \o rest
             ELSE rest

\* results.sort(key=score, reverse=True): stable, highest score first
RECURSIVE InsertByScore(_, _)
InsertByScore(sorted, r) ==
    IF sorted = <<>> THEN <<r>>
    ELSE IF Head(sorted).score >= r.score
         THEN <<Head(sorted)>> \o InsertByScore(Tail(sorted), r)
         ELSE <<r>> \o sorted

RECURSIVE SortByScore(_)
SortByScore(results) ==
    IF results = <<>> THEN <<>>
    ELSE InsertByScore(SortByScore(SubSeq(results, 1, Len(results) - 1)),
                       results[Len(results)])

FirstN(seq, n) == IF Len(seq) > n THEN SubSeq(seq, 1, n) ELSE seq

\* the loop over files_to_search: a file whose read raises is skipped
RECURSIVE CollectHits(_, _, _)
CollectHits(keywords, files, unreadable) ==
    IF files = <<>> THEN [raised |-> FALSE, results |-> <<>>]
    ELSE LET rest == CollectHits(keywords, Tail(files), unreadable)
         IN  IF Head(files) \in unreadable
             THEN rest
             ELSE [raised  |-> rest.raised,
                   results |-> ParagraphHits(keywords, Head(files),
                                   FileParagraphs[Head(files)]) \o rest.results]

RECURSIVE CollectHitsAbort(_, _, _)
CollectHitsAbort(keywords, files, unreadable) ==
    IF files = <<>> THEN [raised |-> FALSE, results |-> <<>>]
    ELSE IF Head(files) \in unreadable
         THEN [raised |-> TRUE, results |-> <<>>]
         ELSE LET rest == CollectHitsAbort(keywords, Tail(files), unreadable)
              IN  [raised  |-> rest.raised,
                   results |-> ParagraphHits(keywords, Head(files),
                                   FileParagraphs[Head(files)]) \o rest.results]

SearchFilesFallbackAbort(query, max_results, unreadable) ==
    LET got == CollectHitsAbort(query, FallbackFiles, unreadable)
    IN  [raised  |-> got.raised,
         results |-> FirstN(SortByScore(got.results), max_results)]

\* _search_files_fallback(query, max_results) when the reads of the files in
\* unreadable raise (the listing of the memory directory is taken to succeed)
SearchFilesFallback(query, max_results, unreadable) ==
    LET got == CollectHits(query, FallbackFiles, unreadable)
    IN  [raised  |-> got.raised,
         results |-> FirstN(SortByScore(got.results), max_results)]

----------------------------------------------------------------------------
(* search_memory as one call *)

\* what _invoke_memory_search can do: return a result list, or raise
RemoteFailures == {"network error", "non-ok status", "malformed response"}

\* search_memory(query) entered gap seconds after the previous operation;
\* the remote call, when made, takes latency seconds and ends as remote says;
\* the reads of the files in unreadable fail
SearchMemory(query, gap, latency, remote, unreadable) ==
    LET t1     == now + gap
        key    == CacheKey(query)
        i      == CacheIndex(recall_cache, key)
        hit    == i # 0 /\ CacheFresh(t1, recall_cache[i].time)
        t2     == t1 + latency
        fb     == SearchFilesFallback(query, MAX_RESULTS, unreadable)
        seen   == [calls          |-> mobs.calls + 1,
                   query          |-> query,
                   key            |-> key,
                   lookup_time    |-> t1,
                   before         |-> recall_cache,
                   unreadable     |-> unreadable,
                   phase          |-> "returned",
                   prev_query     |-> mobs.query,
                   prev_hit       |-> mobs.calls > 0 /\ ~mobs.remote_called,
                   prev_failed    |-> mobs.remote_failed,
                   prev_at        |-> now,
                   prev_key       |-> mobs.key,
                   prev_stored    |-> mobs.stored,
                   prev_stored_at |-> mobs.stored_at,
                   prev_returned  |-> mobs.returned]
    IN  IF hit
        THEN /\ now' = t1
             /\ UNCHANGED <<vobs, asideVars>>
             /\ recall_cache' = CacheHit(recall_cache, i, t1)
             /\ mobs' = seen @@ [remote_called |-> FALSE, remote_failed |-> FALSE,
                                 stored |-> FALSE, stored_at |-> 0,
                                 raised |-> FALSE,
                                 returned |-> recall_cache[i].results]
        ELSE IF remote.ok
        THEN /\ now' = t2
             /\ UNCHANGED <<vobs, asideVars>>
             /\ recall_cache' = CacheStore(recall_cache, key, t2, remote.results)
             /\ mobs' = seen @@ [remote_called |-> TRUE, remote_failed |-> FALSE,
                                 stored |-> TRUE, stored_at |-> t2,
                                 raised |-> FALSE,
                                 returned |-> remote.results]
        ELSE /\ now' = t2
             /\ UNCHANGED <<vobs, asideVars>>
             /\ recall_cache' = recall_cache
             /\ mobs' = seen @@ [remote_called |-> TRUE, remote_failed |-> TRUE,
                                 stored |-> FALSE, stored_at |-> 0,
                                 raised |-> fb.raised,
                                 returned |-> IF fb.raised THEN <<>>
                                              ELSE fb.results]

Pad(word) == [i \in 1..KeyLen |-> word]

\* queries of exactly the key length, and one longer query that shares its
\* first KeyLen words with the first of them
Queries ==
    {Pad(w) : w \in {"guitar", "night", "wall"}} \cup {Pad("guitar") \o <<"haruto">>}

\* the result lists the remote search may return
MemGuitar == [text |-> "guitar session", path |-> "memory/2026-02-10.md",
              source |-> "memory", score |-> 480]
MemNight == [text |-> "night research", path |-> "memory/2026-02-13.md",
             source |-> "memory", score |-> 440]
RemoteAnswers == {<<MemGuitar>>, <<MemNight, MemGuitar>>}

RemoteSuccesses ==
    {[ok |-> TRUE, results |-> a, error |-> "none"] : a \in RemoteAnswers}

RemoteOutcomes ==
    RemoteSuccesses
    \cup {[ok |-> FALSE, results |-> <<>>, error |-> e] : e \in RemoteFailures}

SearchGaps == {1, 30}

\* one search_memory call with the fallback files all readable
Search ==
    /\ mobs.calls < MaxSearches
    /\ \E query \in Queries, gap \in SearchGaps,
          remote \in RemoteSuccesses
                     \cup {[ok |-> FALSE, results |-> <<>>, error |-> "network error"]} :
         SearchMemory(query, gap, RemoteLatency, remote, {})
    /\ UNCHANGED <<affectVars, speechVars, perceptionVars, loopVars>>

\* search_memory up to and including line 38: the call returns on a hit and
\* on a remote failure; after a remote success the new entry is in the dict
\* and the size test of line 40 is still to come
SearchEnter ==
    /\ mobs.calls < MaxSearches
    /\ mobs.phase = "returned"
    /\ \E query \in Queries, gap \in SearchGaps,
          remote \in RemoteSuccesses
                     \cup {[ok |-> FALSE, results |-> <<>>, error |-> "network error"]} :
         LET key == CacheKey(query)
             i   == CacheIndex(recall_cache, key)
             hit == i # 0 /\ CacheFresh(now + gap, recall_cache[i].time)
             t2  == now + gap + RemoteLatency
         IN  IF hit \/ ~remote.ok
             THEN SearchMemory(query, gap, RemoteLatency, remote, {})
             ELSE /\ now' = t2
                  /\ UNCHANGED <<vobs, asideVars>>
                  /\ recall_cache' = CachePut(recall_cache, key, t2, remote.results)
                  /\ mobs' = [mobs EXCEPT !.calls = @ + 1,
                                          !.phase = "stored",
                                          !.query = query,
                                          !.key = key,
                                          !.lookup_time = now + gap,
                                          !.before = recall_cache,
                                          !.prev_query = mobs.query,
                                          !.prev_hit = mobs.calls > 0 /\ ~mobs.remote_called,
                                          !.prev_failed = mobs.remote_failed,
                                          !.prev_at = now,
                                          !.prev_key = mobs.key,
                                          !.prev_stored = mobs.stored,
                                          !.prev_stored_at = mobs.stored_at,
                                          !.prev_returned = mobs.returned,
                                          !.remote_called = TRUE,
                                          !.remote_failed = FALSE,
                                          !.stored = TRUE,
                                          !.stored_at = t2,
                                          !.raised = FALSE,
                                          !.returned = remote.results]
    /\ UNCHANGED <<affectVars, speechVars, perceptionVars, loopVars>>

\* search_memory from line 40 to its return at line 43
SearchEvict ==
    /\ mobs.phase = "stored"
    /\ recall_cache' = CacheEvict(recall_cache)
    /\ mobs' = [mobs EXCEPT !.phase = "returned"]
    /\ UNCHANGED <<now, vobs, asideVars, affectVars, speechVars, perceptionVars, loopVars>>

CacheInit ==
    /\ recall_cache = <<>>
    /\ mobs = [calls |-> 0, query |-> <<>>, key |-> <<>>, lookup_time |-> 0,
               before |-> <<>>, unreadable |-> {}, phase |-> "returned",
               prev_query |-> <<>>, prev_hit |-> FALSE, prev_failed |-> FALSE,
               prev_at |-> StartTime, prev_key |-> <<>>,
               prev_stored |-> FALSE, prev_stored_at |-> 0,
               prev_returned |-> <<>>, remote_called |-> FALSE,
               remote_failed |-> FALSE, stored |-> FALSE, stored_at |-> 0,
               raised |-> FALSE, returned |-> <<>>]

\* build_visual_data not yet called on the list it is to be given
VisualPending(memories) ==
    [calls |-> 0, memories |-> memories, steps |-> <<>>, result |-> <<>>]

MemoryInit ==
    /\ CacheInit
    /\ vobs = VisualPending(<<>>)

----------------------------------------------------------------------------
(* CognitiveLoop.speak and _speak_impl, cognitive_loop.py:100-129 *)

MONOLOGUE_COOLDOWN == 30

\* the opening line of the monologue per emotion, prompt_builder.py:187-198;
\* a monologue is the sequence of its lines, the empty text is <<>>
Opener(emotion) ==
    CASE emotion = "curious"  -> "nn? something catches my eye..."
      [] emotion = "excited"  -> "wow! amazing!"
      [] emotion = "calm"     -> "...so quiet."
      [] emotion = "anxious"  -> "...something feels uneasy."
      [] emotion = "happy"    -> "ehehe, I am glad."
      [] emotion = "lonely"   -> "...silence. is nobody here?"
      [] emotion = "startled" -> "whoa! that startled me!"
      [] emotion = "bored"    -> "yawn... nothing to do."
      [] OTHER                -> "..."

SpeakAcceptsNoCooldown(text, t) ==
    /\ tts_enabled
    /\ text # <<>>
    /\ text # last_monologue

SpeakAcceptsRepeat(text, t) ==
    /\ tts_enabled
    /\ text # <<>>
    /\ ~(t - last_monologue_time < MONOLOGUE_COOLDOWN)

SpeakAcceptsStaleRepeat(text, t) ==
    /\ tts_enabled
    /\ text # <<>>
    /\ ~(t - last_monologue_time < MONOLOGUE_COOLDOWN)
    /\ (text # last_monologue \/ t - last_monologue_time >= 2 * MONOLOGUE_COOLDOWN)

\* the checks of speak, cognitive_loop.py:102-111: TRUE when the call goes on
\* to dispatch a synthesis
SpeakAccepts(text, t) ==
    /\ tts_enabled
    /\ text # <<>>
    /\ ~(t - last_monologue_time < MONOLOGUE_COOLDOWN)
    /\ text # last_monologue

Speaking == {i \in 1..Len(workers) : workers[i].state = "speaking"}

RememberAlways(ok, new, old) == new

\* self.last_monologue = text and self.last_monologue_time = now,
\* cognitive_loop.py:113-114, reached only by a call that passed the checks
Remember(ok, new, old) == IF ok THEN new ELSE old

\* speak(text) at time t, cognitive_loop.py:100-118: on acceptance the last
\* spoken text and time are written, then the worker thread is started
Speak(text, t) ==
    LET ok == SpeakAccepts(text, t)
    IN  /\ last_monologue' = Remember(ok, text, last_monologue)
        /\ last_monologue_time' = Remember(ok, t, last_monologue_time)
        /\ workers' = IF ok
                      THEN Append(workers, [text |-> text, state |-> "started",
                                            arrived_busy |-> Speaking # {}])
                      ELSE workers
        /\ sobs' = [calls |-> sobs.calls + 1, text |-> text, at |-> t,
                    dispatched |-> ok,
                    before_text |-> last_monologue,
                    before_time |-> last_monologue_time,
                    before_workers |-> Len(workers)]
        /\ UNCHANGED <<tts_enabled, tts_lock>>

AcquireAlways(lock_free) == "speaking"

AcquireOrDrop(lock_free) == IF lock_free THEN "speaking" ELSE "dropped"

\* with self.tts_lock, cognitive_loop.py:122: the thread takes the lock when
\* it is free and blocks on it otherwise
AcquireOutcome(lock_free) == IF lock_free THEN "speaking" ELSE "waiting"

\* a started worker thread reaches the with statement
WorkerEnter(i) ==
    /\ i \in 1..Len(workers)
    /\ workers[i].state = "started"
    /\ LET to == AcquireOutcome(tts_lock = 0)
       IN  /\ workers' = [workers EXCEPT ![i].state = to]
           /\ tts_lock' = IF to = "speaking" THEN i ELSE tts_lock
    /\ UNCHANGED <<now, affectVars, memoryVars, asideVars, tts_enabled, last_monologue,
                   last_monologue_time, sobs, perceptionVars, loopVars>>

\* a worker blocked on the lock obtains it once it is free
WorkerWake(i) ==
    /\ i \in 1..Len(workers)
    /\ workers[i].state = "waiting"
    /\ tts_lock = 0
    /\ workers' = [workers EXCEPT ![i].state = "speaking"]
    /\ tts_lock' = i
    /\ UNCHANGED <<now, affectVars, memoryVars, asideVars, tts_enabled, last_monologue,
                   last_monologue_time, sobs, perceptionVars, loopVars>>

\* the synthesis of worker i ends, normally or with an error that
\* cognitive_loop.py:128 swallows; leaving the with block frees the lock
WorkerFinish(i) ==
    /\ i \in 1..Len(workers)
    /\ workers[i].state = "speaking"
    /\ workers' = [workers EXCEPT ![i].state = "done"]
    /\ tts_lock' = IF tts_lock = i THEN 0 ELSE tts_lock
    /\ UNCHANGED <<now, affectVars, memoryVars, asideVars, tts_enabled, last_monologue,
                   last_monologue_time, sobs, perceptionVars, loopVars>>

\* texts a caller may hand to speak
SpeechTexts == {<<>>, <<Opener("calm")>>, <<Opener("bored")>>}

SpeakGaps == {1, 30}

\* one speak call by the driver, gap seconds after the previous operation
SpeakCall ==
    /\ sobs.calls < MaxSpeaks
    /\ \E text \in SpeechTexts, gap \in SpeakGaps :
         /\ now' = now + gap
         /\ Speak(text, now + gap)
    /\ UNCHANGED <<affectVars, memoryVars, asideVars, perceptionVars, loopVars>>

WorkerStep ==
    \E i \in 1..MaxSpeaks : WorkerEnter(i) \/ WorkerWake(i) \/ WorkerFinish(i)

SpeechInit ==
    /\ last_monologue = <<>>
    /\ last_monologue_time = 0
    /\ tts_lock = 0
    /\ workers = <<>>
    /\ sobs = [calls |-> 0, text |-> <<>>, at |-> 0, dispatched |-> FALSE,
               before_text |-> <<>>, before_time |-> 0, before_workers |-> 0]

----------------------------------------------------------------------------
(* Perception.get_perception_data, perception.py:36-51 *)

STALE_AFTER == 10

\* Perception.__init__, perception.py:16-22
InitialData == [scene |-> "waiting for perception data", objects |-> <<>>,
                object_count |-> 0, has_person |-> FALSE]

GetPerceptionData(t) ==
    LET age == t - last_update
    IN  [scene        |-> IF last_update = 0
                          THEN "no perception yet, eyes closed"
                          ELSE last_data.scene,
         objects      |-> last_data.objects,
         object_count |-> last_data.object_count,
         has_person   |-> last_data.has_person,
         stale        |-> last_update > 0 /\ age > STALE_AFTER,
         age          |-> IF last_update > 0 /\ age > STALE_AFTER THEN age ELSE 0]

\* payloads the perception publisher sends; the last one is not JSON
SnapPerson == [scene |-> "a person nearby", objects |-> <<"person">>,
               object_count |-> 1, has_person |-> TRUE]
SnapCat == [scene |-> "a cat on the floor", objects |-> <<"cat">>,
            object_count |-> 1, has_person |-> FALSE]
Snapshots == {SnapPerson, SnapCat}
Malformed == [raw |-> "{not json"]
\* a payload that json.loads accepts and that is not an object
NonObject == [raw |-> "[1, 2]"]
Payloads == Snapshots \cup {Malformed, NonObject}

\* dict(self.last_data), perception.py:39, succeeds on a mapping and raises
\* on a list of numbers
IsMapping(data) == "raw" \notin DOMAIN data

\* on_mqtt_message, perception.py:26-34, up to taking the lock: a payload
\* that does not parse is reported and dropped
WriterAcquire ==
    /\ pobs.messages < MaxMessages
    /\ writer.pc = "idle"
    /\ \E payload \in Payloads :
         IF payload = Malformed
         THEN /\ pobs' = [pobs EXCEPT !.messages = @ + 1]
              /\ UNCHANGED <<writer, plock>>
         ELSE /\ plock = "free"
              /\ plock' = "writer"
              /\ writer' = [pc |-> "store", data |-> payload]
              /\ pobs' = [pobs EXCEPT !.messages = @ + 1]
    /\ UNCHANGED <<now, last_data, last_update, reader, affectVars, memoryVars, asideVars,
                   speechVars, loopVars>>

\* self.last_data = data, perception.py:31
WriterStore ==
    /\ writer.pc = "store"
    /\ last_data' = writer.data
    /\ writer' = [writer EXCEPT !.pc = "stamp"]
    /\ UNCHANGED <<now, last_update, plock, reader, pobs, affectVars,
                   memoryVars, asideVars, speechVars, loopVars>>

\* self._last_update = time.time(), perception.py:32, and the lock released
WriterStamp ==
    /\ writer.pc = "stamp"
    /\ last_update' = now
    /\ plock' = "free"
    /\ writer' = [writer EXCEPT !.pc = "idle"]
    /\ pobs' = [pobs EXCEPT !.stored = Append(@, [data |-> writer.data, at |-> now])]
    /\ UNCHANGED <<now, last_data, reader, affectVars, memoryVars, asideVars, speechVars,
                   loopVars>>

\* the two tests of get_perception_data, perception.py:43 and 48, each of
\* which reads self._last_update again
ReaderStale ==
    [stale |-> last_update > 0 /\ reader.age > STALE_AFTER,
     first |-> last_update = 0]

\* get_perception_data, perception.py:38-39: the copy taken under the lock
ReaderCopy ==
    /\ pobs.reads < MaxReads
    /\ reader.pc \in {"idle", "done", "raised"}
    /\ plock = "free"
    /\ reader' = IF IsMapping(last_data)
                  THEN [pc |-> "age", data |-> last_data, at |-> 0, seen |-> 0,
                        age |-> 0, stale |-> FALSE, reported |-> 0]
                  ELSE [reader EXCEPT !.pc = "raised"]
    /\ pobs' = [pobs EXCEPT !.reads = @ + 1]
    /\ UNCHANGED <<now, last_data, last_update, plock, writer, affectVars,
                   memoryVars, asideVars, speechVars, loopVars>>

\* age = time.time() - self._last_update, perception.py:42, outside the lock
ReaderAge ==
    /\ reader.pc = "age"
    /\ reader' = [reader EXCEPT !.pc = "flag", !.at = now, !.seen = last_update,
                                !.age = now - last_update]
    /\ UNCHANGED <<now, last_data, last_update, plock, writer, pobs, affectVars,
                   memoryVars, asideVars, speechVars, loopVars>>

\* perception.py:43-45: the stale flag and the age attached to the copy
ReaderFlag ==
    /\ reader.pc = "flag"
    /\ reader' = [reader EXCEPT !.pc = "scene",
                                !.stale = ReaderStale.stale,
                                !.reported = IF ReaderStale.stale THEN reader.age ELSE 0]
    /\ UNCHANGED <<now, last_data, last_update, plock, writer, pobs, affectVars,
                   memoryVars, asideVars, speechVars, loopVars>>

\* perception.py:48-51: the scene of a loop that never received, and return
ReaderReturn ==
    /\ reader.pc = "scene"
    /\ reader' = [reader EXCEPT !.pc = "done",
                                !.data = IF ReaderStale.first
                                         THEN [reader.data EXCEPT
                                                 !.scene = "no perception yet, eyes closed"]
                                         ELSE reader.data]
    /\ UNCHANGED <<now, last_data, last_update, plock, writer, pobs, affectVars,
                   memoryVars, asideVars, speechVars, loopVars>>

TickGaps == {1, 11}

\* time passes between two steps of the perception threads
Tick ==
    /\ pobs.ticks < MaxTicks
    /\ \E gap \in TickGaps : now' = now + gap
    /\ pobs' = [pobs EXCEPT !.ticks = @ + 1]
    /\ UNCHANGED <<last_data, last_update, plock, writer, reader, affectVars,
                   memoryVars, asideVars, speechVars, loopVars>>

PerceptionInit ==
    /\ last_data = InitialData
    /\ last_update = 0
    /\ plock = "free"
    /\ writer = [pc |-> "idle", data |-> InitialData]
    /\ reader = [pc |-> "idle", data |-> InitialData, at |-> 0, seen |-> 0,
                 age |-> 0, stale |-> FALSE, reported |-> 0]
    /\ pobs = [messages |-> 0, reads |-> 0, ticks |-> 0, stored |-> <<>>,
               delivered |-> InitialData, delivered_at |-> 0,
               delivered_in |-> 0]

----------------------------------------------------------------------------
(* MemoryRecall.recall, memory_recall.py:138-183 *)

\* emotion_queries, memory_recall.py:156-165: one phrase per emotion
EmotionQuery(emotion) ==
    CASE emotion = "curious"  -> "explore adventure discovery"
      [] emotion = "excited"  -> "fun excitement thrill"
      [] emotion = "calm"     -> "quiet peace gentle"
      [] emotion = "anxious"  -> "anxiety dark worry"
      [] emotion = "happy"    -> "haruto together glad"
      [] emotion = "lonely"   -> "alone night nobody"
      [] emotion = "startled" -> "collision bump wall"
      [] emotion = "bored"    -> "boredom nothing"

\* the query parts in order: scene, up to 3 labels, the emotion's phrase, the
\* person phrase; the default query when there is none
RecallQuery(perception_data, emotion) ==
    LET parts == (IF perception_data.scene # "" THEN <<perception_data.scene>> ELSE <<>>)
                 \o FirstN(perception_data.objects, 3)
                 \o (IF emotion \in EmotionNames THEN <<EmotionQuery(emotion)>> ELSE <<>>)
                 \o (IF perception_data.has_person
                     THEN <<"haruto person encounter">> ELSE <<>>)
    IN  IF parts = <<>> THEN <<"pal daily">> ELSE parts

----------------------------------------------------------------------------
(* PromptBuilder._build_monologue, prompt_builder.py:176-248 *)

\* the words a memory text contains
TextWords(text) ==
    CASE text = "guitar session" -> {"guitar", "session"}
      [] text = "night research" -> {"night", "research"}
      [] text = "pal was born" -> {"pal", "born"}
      [] text = "guitar session with haruto" -> {"guitar", "session", "haruto"}
      [] text = "guitar practice" -> {"guitar", "practice"}
      [] text = "wall collision" -> {"wall", "collision"}
      [] OTHER -> {}

\* the closing line chosen from the top memory, prompt_builder.py:222-245
ClosingLine(memories) ==
    IF memories = <<>> THEN <<>>
    ELSE LET w == TextWords(memories[1].text)
             score == memories[1].score
         IN  IF score > 450
             THEN (IF "guitar" \in w THEN <<"that guitar session was fun...">>
                   ELSE IF "haruto" \in w \/ "partner" \in w
                        THEN <<"I remember haruto...">>
                   ELSE IF "collision" \in w \/ "wall" \in w
                        THEN <<"I think I bumped here before...">>
                   ELSE IF "birth" \in w \/ "born" \in w
                        THEN <<"I remember the day I was born...">>
                   ELSE IF "night" \in w \/ "research" \in w
                        THEN <<"at night I looked up many things...">>
                   ELSE IF "Vision" \in w \/ "AR" \in w
                        THEN <<"the Vision Pro world was fun...">>
                   ELSE <<"somehow... this happened before.">>)
             ELSE IF score > 350
                  THEN <<"...what was it, I almost remember.">>
                  ELSE <<>>

\* the middle line, prompt_builder.py:200-219: the person line, else the
\* names of the first two objects
MiddleLine(perception_data) ==
    IF perception_data.has_person THEN <<"oh, someone is here. haruto?">>
    ELSE IF perception_data.objects # <<>>
         THEN <<"I can see">> \o FirstN(perception_data.objects, 2)
         ELSE <<>>

BuildMonologueNoOpener(perception_data, emotion, memories) ==
    MiddleLine(perception_data) \o ClosingLine(FirstN(memories, 3))

\* the monologue: opener, middle line, closing line of the top 3 memories
BuildMonologue(perception_data, emotion, memories) ==
    <<Opener(emotion)>> \o MiddleLine(perception_data)
        \o ClosingLine(FirstN(memories, 3))

----------------------------------------------------------------------------
(* MemoryRecall.build_visual_data, memory_recall.py:185-244 *)

\* mappings, memory_recall.py:209-220: keywords and the visual they select
VisualMappings ==
    <<[keywords |-> {"guitar", "session", "music"},
       visual |-> "echo of music, rhythmic waves, vibrating strings"],
      [keywords |-> {"three-body", "SF", "dark forest", "space"},
       visual |-> "distant stars, cosmic vastness, dark forest theory"],
      [keywords |-> {"haruto", "partner", "together"},
       visual |-> "warm presence, golden connection thread, companionship glow"],
      [keywords |-> {"camera", "eye", "awake"},
       visual |-> "opening eyes, first light, digital awakening"],
      [keywords |-> {"night", "midnight", "moon"},
       visual |-> "moonlight, quiet darkness, contemplation"],
      [keywords |-> {"run", "motor", "JetBot", "explore"},
       visual |-> "movement trails, speed blur, wheels in motion"],
      [keywords |-> {"Vision", "AR", "VR"},
       visual |-> "augmented layers, holographic shimmer, mixed reality"],
      [keywords |-> {"Bluetooth", "speaker", "voice"},
       visual |-> "sound waves emanating, voice ripples, audio aura"],
      [keywords |-> {"collision", "wall", "bump"},
       visual |-> "impact flash, boundary detection, caution pattern"],
      [keywords |-> {"born", "birth", "first"},
       visual |-> "genesis light, first breath, digital birth"]>>

\* key = visual[:20], memory_recall.py:224: the first 20 characters
DedupKey(visual) ==
    CASE visual = "echo of music, rhythmic waves, vibrating strings"
            -> "echo of music, rhyth"
      [] visual = "distant stars, cosmic vastness, dark forest theory"
            -> "distant stars, cosmi"
      [] visual = "warm presence, golden connection thread, companionship glow"
            -> "warm presence, golde"
      [] visual = "opening eyes, first light, digital awakening"
            -> "opening eyes, first "
      [] visual = "moonlight, quiet darkness, contemplation"
            -> "moonlight, quiet dar"
      [] visual = "movement trails, speed blur, wheels in motion"
            -> "movement trails, spe"
      [] visual = "augmented layers, holographic shimmer, mixed reality"
            -> "augmented layers, ho"
      [] visual = "sound waves emanating, voice ripples, audio aura"
            -> "sound waves emanatin"
      [] visual = "impact flash, boundary detection, caution pattern"
            -> "impact flash, bounda"
      [] visual = "genesis light, first breath, digital birth"
            -> "genesis light, first"
      [] OTHER -> visual

\* the table's visuals, the only phrases whose key enters keywords_found
TableVisuals == {VisualMappings[i].visual : i \in 1..Len(VisualMappings)}

\* keywords_found after a memory has added the phrases v
FoundAfter(v, found) ==
    found \cup {DedupKey(v[i]) : i \in {j \in 1..Len(v) : v[j] \in TableVisuals}}

\* the visual one memory adds, memory_recall.py:222-231: the first mapping
\* that matches its text and is not yet used, else the faint trace of a
\* memory scoring above 0.4
VisualFor(mem, found) ==
    LET hits == {i \in 1..Len(VisualMappings) :
                    /\ VisualMappings[i].keywords \cap TextWords(mem.text) # {}
                    /\ DedupKey(VisualMappings[i].visual) \notin found}
    IN  IF hits # {}
        THEN <<VisualMappings[CHOOSE i \in hits : \A j \in hits : i <= j].visual>>
        ELSE IF mem.score > 400
             THEN <<"faint memory traces, ghostly echoes of the past">>
             ELSE <<>>

RECURSIVE VisualParts(_, _)
VisualParts(memories, found) ==
    IF memories = <<>> THEN <<>>
    ELSE LET v == VisualFor(Head(memories), found)
         IN  v \o VisualParts(Tail(memories), FoundAfter(v, found))

RECURSIVE SumScores(_)
SumScores(memories) ==
    IF memories = <<>> THEN 0 ELSE Head(memories).score + SumScores(Tail(memories))

MeanScoreOfThree(top) == (2 * SumScores(top) + 3) \div 6

\* round(avg_score, 3), memory_recall.py:234 and 243: the mean score in
\* thousandths, rounded to the nearest whole thousandth
MeanScore(top) == (2 * SumScores(top) + Len(top)) \div (2 * Len(top))

\* the visual description and the strength (mean score of the top 3, in
\* thousandths) of the recalled memories
BuildVisualData(memories) ==
    IF memories = <<>>
    THEN [memories |-> <<>>,
          visual_description |-> <<"no memories surfacing, blank slate, pristine">>,
          memory_strength |-> 0]
    ELSE LET top   == FirstN(memories, 3)
             parts == VisualParts(top, {})
         IN  [memories |-> top,
              visual_description |-> IF parts # <<>> THEN parts
                                     ELSE <<"dormant memories, quiet mind">>,
              memory_strength |-> MeanScore(top)]

\* what each of the top memories adds in turn, in the order of the loop of
\* memory_recall.py:204-231
RECURSIVE VisualSteps(_, _)
VisualSteps(memories, found) ==
    IF memories = <<>> THEN <<>>
    ELSE LET v == VisualFor(Head(memories), found)
         IN  <<v>> \o VisualSteps(Tail(memories), FoundAfter(v, found))

\* memories a search can return: two remote answers, a fallback paragraph,
\* and two texts without any keyword of the table
MemHaruto == [text |-> "guitar session with haruto", path |-> "MEMORY.md",
              source |-> "fallback", score |-> 1000]
MemVague == [text |-> "quiet afternoon", path |-> "memory/2026-02-11.md",
             source |-> "memory", score |-> 450]
MemDim == [text |-> "quiet afternoon", path |-> "memory/2026-02-12.md",
           source |-> "memory", score |-> 350]
VisualMemories == {MemGuitar, MemNight, MemHaruto, MemVague, MemDim}

VisualInputs ==
    UNION {[1..n -> VisualMemories] : n \in 0..MaxMemories}

\* one call of build_visual_data on the list drawn at the start
BuildVisual ==
    /\ vobs.calls = 0
    /\ vobs' = [calls    |-> 1,
                memories |-> vobs.memories,
                steps    |-> VisualSteps(FirstN(vobs.memories, 3), {}),
                result   |-> BuildVisualData(vobs.memories)]
    /\ UNCHANGED <<now, recall_cache, mobs, asideVars, affectVars, speechVars,
                   perceptionVars, loopVars>>

----------------------------------------------------------------------------
(* PromptBuilder.build, prompt_builder.py:78-174 *)

\* EMOTION_STYLES, prompt_builder.py:8-49, and the fallback to calm
EmotionStyle(emotion) ==
    CASE emotion = "curious"  -> [mood |-> "ethereal, delicate, exploring",
                                  colors |-> "soft cyan, pale yellow"]
      [] emotion = "excited"  -> [mood |-> "dynamic, energetic",
                                  colors |-> "vivid orange, electric blue"]
      [] emotion = "anxious"  -> [mood |-> "distorted, glitchy, fragmented",
                                  colors |-> "dark purple, muted red"]
      [] emotion = "happy"    -> [mood |-> "glowing, warm, radiant",
                                  colors |-> "golden yellow, warm pink"]
      [] emotion = "lonely"   -> [mood |-> "vast empty space, single light source",
                                  colors |-> "deep indigo, cool grey"]
      [] emotion = "startled" -> [mood |-> "high contrast, motion blur",
                                  colors |-> "flash white, sharp red"]
      [] emotion = "bored"    -> [mood |-> "flat, minimal, still life",
                                  colors |-> "desaturated, beige"]
      [] OTHER                -> [mood |-> "serene, peaceful, slow motion",
                                  colors |-> "deep blue, soft green"]

BuildSceneDescPersonFirst(perception_data) ==
    LET parts ==
            (IF perception_data.scene # "" THEN <<perception_data.scene>> ELSE <<>>)
            \o (IF perception_data.objects # <<>>
                THEN <<"detecting:">> \o FirstN(perception_data.objects, 5) ELSE <<>>)
            \o (IF perception_data.has_person
                THEN <<"warm human presence nearby">>
                ELSE IF perception_data.object_count = 0
                     THEN <<"empty void, nothing detected">>
                     ELSE IF perception_data.object_count > 5
                          THEN <<"rich complex environment">> ELSE <<>>)
    IN  IF parts # <<>> THEN parts ELSE <<"abstract digital space">>

\* _build_scene_desc, prompt_builder.py:149-174: the parts joined by commas
BuildSceneDesc(perception_data) ==
    LET parts ==
            (IF perception_data.scene # "" THEN <<perception_data.scene>> ELSE <<>>)
            \o (IF perception_data.objects # <<>>
                THEN <<"detecting:">> \o FirstN(perception_data.objects, 5) ELSE <<>>)
            \o (IF perception_data.has_person
                THEN <<"warm human presence nearby">> ELSE <<>>)
            \o (IF perception_data.object_count = 0
                THEN <<"empty void, nothing detected">>
                ELSE IF perception_data.object_count > 5
                     THEN <<"rich complex environment">> ELSE <<>>)
    IN  IF parts # <<>> THEN parts ELSE <<"abstract digital space">>

\* snapshots a perception publisher can send: any scene text, up to two
\* labelled objects, and any person flag and object count
SceneInputs ==
    [scene        : {"", "a person nearby", "a cat on the floor"},
     objects      : {<<>>, <<"person">>, <<"cat">>, <<"person", "cat">>},
     object_count : {0, 1, 5, 6},
     has_person   : BOOLEAN]

\* one call of _build_scene_desc on the snapshot drawn at the start
BuildScene ==
    /\ bobs.calls = 0
    /\ bobs' = [calls      |-> 1,
                perception |-> bobs.perception,
                parts      |-> BuildSceneDesc(bobs.perception)]
    /\ UNCHANGED <<now, affectVars, memoryVars, speechVars, perceptionVars,
                   loopVars, collisionVars>>

\* prompt_builder.py:96-102
MemOpacity(mem_strength) ==
    IF mem_strength > 500 THEN "high, vivid ghostly overlay"
    ELSE IF mem_strength > 350 THEN "medium, translucent memory echoes"
    ELSE "low, barely visible whispers"

\* sd_prompt, prompt_builder.py:108-121: BASE_PROMPT with its slots filled,
\* as the sequence of its pieces, and the weight added for the arousal
BuildPrompt(perception_data, emotion, arousal_now, memory_data) ==
    <<"dreamlike digital consciousness visualization, abstract AI perception">>
    \o BuildSceneDesc(perception_data)
    \o <<EmotionStyle(emotion).mood, EmotionStyle(emotion).colors>>
    \o memory_data.visual_description
    \o <<"memory strength", MemOpacity(memory_data.memory_strength),
         "digital creature's subjective experience, masterpiece, best quality">>
    \o (IF arousal_now > 700 THEN <<"(intense emotional energy:1.3)">>
        ELSE IF arousal_now < 300 THEN <<"(subdued quiet contemplation:1.2)">>
        ELSE <<>>)

----------------------------------------------------------------------------
(* CognitiveLoop.run and run_cycle, cognitive_loop.py:210-317 *)

CYCLE_INTERVAL == 2
GATE_INTERVAL == 60

CycleMotorStateRunning == "running"

\* motor_state as run_cycle passes it, cognitive_loop.py:218: a dict, which
\* never equals "running"
CycleMotorState == "{moving: False, direction: stop}"

\* the emotion Affect.update commits and returns
Committed(t, has_person, motor_state, collision) ==
    Commit(Classify(t, has_person, motor_state,
                    Bookkeep(t, has_person, motor_state, collision)))

GateOpenAnyText(monologue, emotion_changed, t) == monologue # <<>>

\* cognitive_loop.py:259-260: the condition under which run_cycle calls speak
GateOpen(monologue, emotion_changed, t) ==
    monologue # <<>> /\ (emotion_changed \/ t - last_monologue_time > GATE_INTERVAL)

PropagateCycleError == [pc |-> "raised", running |-> FALSE]

\* except Exception around run_cycle, cognitive_loop.py:301-308: the error is
\* printed and the driver goes on to time.sleep
CatchCycleError == [pc |-> "sleep", running |-> running]

\* except KeyboardInterrupt and finally, cognitive_loop.py:309-317: the
\* interrupt leaves the while loop from wherever it was raised
CatchInterrupt == [pc |-> "stopped", running |-> FALSE]

PublishUnchecked == IF mqtt_connected THEN "sent" ELSE "raised"

\* publish(topic, data), cognitive_loop.py:91-98: the payload is handed to
\* the client only when there is a client and it is connected
Publish == IF mqtt_client /\ mqtt_connected THEN "sent" ELSE "skipped"

\* the topics of the three publish calls of cognitive_loop.py:232-252
CycleTopics ==
    <<"vision_pal/prompt/current", "vision_pal/affect/state",
      "vision_pal/perception/objects">>

CyclePublishesMonologueFirst(gate_open) ==
    (IF gate_open THEN <<"vision_pal/monologue">> ELSE <<>>) \o CycleTopics

\* the publish calls one returning run_cycle makes, in order: the monologue
\* is published inside the speech gate, after speak (cognitive_loop.py:260-267)
CyclePublishes(gate_open) ==
    CycleTopics \o (IF gate_open THEN <<"vision_pal/monologue">> ELSE <<>>)

\* the steps of run_cycle in order; a fault raises in place of that step
CycleSteps == <<"perception", "affect", "memory", "prompt", "publish", "speak">>

\* the steps in which the collaborators' code can raise an Exception; the
\* publish step raises only as Publish says
FaultSteps == {"perception", "affect", "memory", "prompt", "speak"}

StepIndex(step) ==
    IF step = "none" THEN Len(CycleSteps) + 1
    ELSE CHOOSE i \in 1..Len(CycleSteps) : CycleSteps[i] = step

\* one iteration of the while loop: run_cycle at time now, in which the
\* remote search, when made, takes latency seconds and ends as remote says,
\* and in place of the step fault (none: no fault) a KeyboardInterrupt
\* (interrupt) or an Exception is raised
RunCycle(latency, remote, fault, interrupt) ==
    LET t0        == now
        raised    == IF StepIndex(fault) > 5 /\ Publish = "raised"
                     THEN "publish" ELSE fault
        reach     == StepIndex(raised)
        stop      == raised # "none" /\ interrupt /\ raised = fault
        pd        == GetPerceptionData(t0)
        emotion   == Committed(t0, pd.has_person, CycleMotorState, FALSE)
        query     == RecallQuery(pd, emotion)
        memories  == mobs'.returned
        memory_data == BuildVisualData(memories)
        monologue == BuildMonologue(pd, emotion, memory_data.memories)
        sd_prompt == BuildPrompt(pd, emotion, arousal', memory_data)
        changed   == emotion # last_emotion
        \* a cycle that ends in its publish step has issued none of its
        \* publishes; one that ends in speak has issued the first three
        issued    == IF reach <= 5 THEN <<>>
                     ELSE CyclePublishes(raised = "none"
                                           /\ GateOpen(monologue, changed, now'))
    IN  /\ IF reach > 2
           THEN AffectUpdate(t0, pd.has_person, CycleMotorState, FALSE)
           ELSE UNCHANGED affectVars
        /\ IF reach > 3
           THEN /\ SearchMemory(query, 0, latency, remote, {})
                /\ last_query' = query
                /\ last_recall' = memories
           ELSE UNCHANGED <<now, memoryVars, asideVars, last_query, last_recall>>
        /\ IF reach > 5
           THEN /\ last_emotion' = emotion
                /\ IF GateOpen(monologue, changed, now')
                   THEN Speak(monologue, now')
                   ELSE UNCHANGED speechVars
           ELSE UNCHANGED <<last_emotion, speechVars>>
        \* Thread.start raising leaves no worker behind
        /\ (raised = "speak" /\ ~interrupt) =>
              /\ GateOpen(monologue, changed, now')
              /\ SpeakAccepts(monologue, now')
        /\ cycle_count' = IF raised = "none" THEN cycle_count + 1 ELSE cycle_count
        /\ pc' = IF raised = "none" THEN "sleep"
                 ELSE IF stop THEN CatchInterrupt.pc ELSE CatchCycleError.pc
        /\ running' = IF raised = "none" THEN running
                      ELSE IF stop THEN CatchInterrupt.running
                      ELSE CatchCycleError.running
        /\ interrupted' = (interrupted \/ stop)
        /\ cobs' = [iterations      |-> cobs.iterations + 1,
                    faults          |-> cobs.faults
                                          + (IF raised # "none" /\ ~stop THEN 1 ELSE 0),
                    faulted         |-> raised # "none" /\ ~stop,
                    aborted         |-> stop,
                    injected        |-> fault,
                    reached         |-> reach,
                    publish         |-> IF reach >= 5 THEN Publish ELSE "unreached",
                    published       |-> issued,
                    mono_prev       |-> cobs.mono_since,
                    mono_since      |-> IF Len(issued) > Len(CycleTopics)
                                        THEN now'
                                        ELSE IF current_emotion' # current_emotion
                                             THEN 0 ELSE cobs.mono_since,
                    steady          |-> current_emotion' = current_emotion,
                    log             |-> cobs.log \o
                                          [i \in 1..Len(issued) |->
                                              [cycle |-> cobs.iterations + 1,
                                               topic |-> issued[i]]],
                    start           |-> t0,
                    scene           |-> pd.scene,
                    has_person      |-> pd.has_person,
                    emotion         |-> emotion,
                    monologue       |-> monologue,
                    sd_prompt       |-> IF reach > 4 THEN sd_prompt ELSE <<>>,
                    emotion_before  |-> last_emotion,
                    spoke_before    |-> last_monologue_time,
                    gate_at         |-> now',
                    gate            |-> reach > 5 /\ GateOpen(monologue, changed, now'),
                    dispatched      |-> reach > 5 /\ Len(workers') > Len(workers),
                    prev_faulted    |-> cobs.faulted,
                    prev_start      |-> cobs.start,
                    prev_emotion    |-> cobs.emotion,
                    prev_monologue  |-> cobs.monologue,
                    prev_dispatched |-> cobs.dispatched]
        /\ UNCHANGED <<perceptionVars, has_mqtt, mqtt_client, mqtt_connected>>

RemoteLatencies == {RemoteLatency, RemoteLatency + 2}

LoopRemotes ==
    {[ok |-> TRUE, results |-> <<MemGuitar>>, error |-> "none"],
     [ok |-> FALSE, results |-> <<>>, error |-> "network error"]}

\* run(): setup_mqtt, then running = True (cognitive_loop.py:290-297); with
\* paho present setup_mqtt reads self.config, which no CognitiveLoop has, and
\* the AttributeError leaves run before the loop
Start ==
    /\ pc = "idle"
    /\ IF has_mqtt
       THEN /\ pc' = "raised"
            /\ running' = running
       ELSE /\ pc' = "cycle"
            /\ running' = TRUE
    /\ UNCHANGED <<now, affectVars, memoryVars, asideVars, speechVars, perceptionVars,
                   has_mqtt, mqtt_client, mqtt_connected, cycle_count,
                   last_emotion, last_query, last_recall, interrupted, cobs>>

\* an iteration in which run_cycle returns
Cycle ==
    /\ pc = "cycle"
    /\ cobs.iterations < MaxCycles
    /\ \E latency \in RemoteLatencies, remote \in LoopRemotes :
         RunCycle(latency, remote, "none", FALSE)

\* an iteration in which run_cycle raises an Exception
CycleFault ==
    /\ pc = "cycle"
    /\ cobs.iterations < MaxCycles
    /\ cobs.faults < MaxFaults
    /\ \E latency \in RemoteLatencies, remote \in LoopRemotes,
          fault \in FaultSteps :
         RunCycle(latency, remote, fault, FALSE)

\* an iteration in which a KeyboardInterrupt reaches the driver inside
\* run_cycle, at any of its steps
CycleInterrupt ==
    /\ pc = "cycle"
    /\ cobs.iterations < MaxCycles
    /\ \E latency \in RemoteLatencies, remote \in LoopRemotes,
          fault \in {CycleSteps[i] : i \in 1..Len(CycleSteps)} :
         RunCycle(latency, remote, fault, TRUE)

\* what setup_mqtt wires to the client, cognitive_loop.py:69-71: on_connect
\* and on_disconnect; no on_message callback is set and no topic subscribed
Subscribed == FALSE

\* the perception publisher sends a snapshot on the perception topic while
\* the loop runs; it reaches Perception.on_mqtt_message only through a
\* subscription of the loop's client
Deliver ==
    /\ running
    /\ pc \in {"cycle", "sleep"}
    /\ pobs.messages < MaxDeliveries
    /\ \E payload \in Snapshots :
         /\ pobs' = [pobs EXCEPT !.messages = @ + 1,
                                 !.delivered = payload,
                                 !.delivered_at = now,
                                 !.delivered_in = cobs.iterations,
                                 !.stored = IF Subscribed
                                            THEN Append(@, [data |-> payload, at |-> now])
                                            ELSE @]
         /\ last_data' = IF Subscribed THEN payload ELSE last_data
         /\ last_update' = IF Subscribed THEN now ELSE last_update
    /\ UNCHANGED <<now, plock, writer, reader, affectVars, memoryVars, asideVars,
                   speechVars, loopVars>>

\* time.sleep(interval), then the while test, cognitive_loop.py:300-308
Sleep ==
    /\ pc = "sleep"
    /\ \E gap \in {CYCLE_INTERVAL, LongSleep} : now' = now + gap
    /\ IF running
       THEN /\ pc' = "cycle"
            /\ running' = running
       ELSE /\ pc' = "stopped"
            /\ running' = FALSE
    /\ UNCHANGED <<affectVars, memoryVars, asideVars, speechVars, perceptionVars,
                   has_mqtt, mqtt_client, mqtt_connected, cycle_count,
                   last_emotion, last_query, last_recall, interrupted, cobs>>

\* KeyboardInterrupt while the driver sleeps: except and finally,
\* cognitive_loop.py:309-317
Interrupt ==
    /\ pc = "sleep"
    /\ pc' = "stopped"
    /\ running' = FALSE
    /\ interrupted' = TRUE
    /\ UNCHANGED <<now, affectVars, memoryVars, asideVars, speechVars, perceptionVars,
                   has_mqtt, mqtt_client, mqtt_connected, cycle_count,
                   last_emotion, last_query, last_recall, cobs>>

LoopInit ==
    /\ mqtt_client = FALSE
    /\ mqtt_connected = FALSE
    /\ running = FALSE
    /\ cycle_count = 0
    /\ last_emotion = ""
    /\ last_query = <<>>
    /\ last_recall = <<>>
    /\ pc = "idle"
    /\ interrupted = FALSE
    /\ cobs = [iterations |-> 0, faults |-> 0, faulted |-> FALSE,
               aborted |-> FALSE, injected |-> "none", reached |-> 0,
               publish |-> "unreached", published |-> <<>>, log |-> <<>>,
               mono_prev |-> 0, mono_since |-> 0, steady |-> TRUE,
               start |-> 0, scene |-> "", has_person |-> FALSE,
               emotion |-> "", monologue |-> <<>>, sd_prompt |-> <<>>,
               emotion_before |-> "",
               spoke_before |-> 0, gate_at |-> 0, gate |-> FALSE,
               dispatched |-> FALSE,
               prev_faulted |-> FALSE, prev_start |-> 0, prev_emotion |-> "",
               prev_monologue |-> <<>>, prev_dispatched |-> FALSE]

\* _build_scene_desc not yet called on the snapshot it is to be given
ScenePending(perception) ==
    [calls |-> 0, perception |-> perception, parts |-> <<>>]

PromptInit == bobs = ScenePending(InitialData)

----------------------------------------------------------------------------
(* The collision detector, JetBot/collision_detect.py:123-185 *)

\* COLLISION_THRESHOLD = 1.0, in hundredths of a grey level
COLLISION_THRESHOLD == 100
COLLISION_FRAMES == 3
\* collision_cooldown = 30, collision_detect.py:178
COLLISION_COOLDOWN == 30

\* frame differences on both sides of the threshold, in hundredths
Diffs == {99, 100}

\* the frames counted since the last report, as far as the claims look
GapCap == COLLISION_COOLDOWN + COLLISION_FRAMES + 1

StillAfterInclusive(diff, still) ==
    IF diff <= COLLISION_THRESHOLD THEN still + 1 ELSE 0

\* collision_detect.py:166-173: a frame below the threshold counts, any
\* other frame starts the count again
StillAfter(diff, still) ==
    IF diff < COLLISION_THRESHOLD THEN still + 1 ELSE 0

\* the last COLLISION_FRAMES checked frames, the newest last
Recent(frame) ==
    LET r == Append(kobs.recent, frame)
    IN  IF Len(r) > COLLISION_FRAMES THEN Tail(r) ELSE r

\* main at the head of its loop, collision_detect.py:137-138
CollisionInit ==
    /\ still_count = 0
    /\ collision_cooldown = 0
    /\ kpc = "loop"
    /\ kobs = [kind |-> "none", diff |-> 0, motor |-> FALSE,
               reported |-> FALSE, recent |-> <<>>, since |-> 0, gap |-> 0,
               reports |-> 0]

\* one iteration of the loop of main, collision_detect.py:141-178: ret is
\* the outcome of cap.read, diff the frame difference in hundredths, motor
\* what is_motor_running answers when it is asked; kobs.reports counts the
\* reports up to two, kobs.gap the frames read from one report to the next
Frame ==
    /\ kpc = "loop"
    /\ \E ret \in BOOLEAN, diff \in Diffs, motor \in BOOLEAN :
         LET sc     == StillAfter(diff, still_count)
             report == motor /\ sc >= COLLISION_FRAMES
             gap    == IF kobs.since < GapCap THEN kobs.since + 1 ELSE GapCap
         IN  IF ~ret
             THEN /\ kobs' = [kobs EXCEPT !.kind = "failed", !.diff = 0,
                                          !.motor = FALSE, !.reported = FALSE]
                  /\ UNCHANGED <<still_count, collision_cooldown>>
             ELSE IF collision_cooldown > 0
             THEN /\ collision_cooldown' = collision_cooldown - 1
                  /\ still_count' = still_count
                  /\ kobs' = [kobs EXCEPT !.kind = "cooldown", !.diff = diff,
                                          !.motor = FALSE, !.reported = FALSE,
                                          !.since = gap]
             ELSE /\ still_count' = IF ~motor \/ report THEN 0 ELSE sc
                  /\ collision_cooldown' = IF report THEN COLLISION_COOLDOWN
                                           ELSE collision_cooldown
                  /\ kobs' = [kind     |-> "checked",
                              diff     |-> diff,
                              motor    |-> motor,
                              reported |-> report,
                              recent   |-> Recent([diff |-> diff, motor |-> motor,
                                                   reported |-> report]),
                              since    |-> IF report THEN 0 ELSE gap,
                              gap      |-> IF report THEN gap ELSE kobs.gap,
                              reports  |-> IF report /\ kobs.reports < 2
                                           THEN kobs.reports + 1
                                           ELSE kobs.reports]
    /\ kpc' = kpc
    /\ UNCHANGED <<now, affectVars, memoryVars, speechVars, perceptionVars,
                   loopVars, promptVars>>

\* KeyboardInterrupt, collision_detect.py:180-185: main ends
CollisionStop ==
    /\ kpc = "loop"
    /\ kpc' = "ended"
    /\ UNCHANGED <<now, still_count, collision_cooldown, kobs, affectVars,
                   memoryVars, speechVars, perceptionVars, loopVars, promptVars>>

CollisionNext == Frame \/ CollisionStop

Init ==
    /\ now = StartTime
    /\ AffectInit
    /\ MemoryInit
    /\ SpeechInit
    /\ PerceptionInit
    /\ LoopInit
    /\ PromptInit
    /\ CollisionInit
    /\ tts_enabled = TRUE
    /\ has_mqtt = FALSE

AffectNext == Update

\* the Affect object driven through its update method by any caller
SpecAffect == Init /\ [][AffectNext]_vars

MemoryNext == Search

\* the MemoryRecall object driven through search_memory by any caller
SpecMemory == Init /\ [][MemoryNext]_vars

\* the objects as constructed, and a list of memories for build_visual_data
InitVisual ==
    /\ now = StartTime
    /\ AffectInit
    /\ CacheInit
    /\ vobs \in {VisualPending(m) : m \in VisualInputs}
    /\ SpeechInit
    /\ PerceptionInit
    /\ LoopInit
    /\ PromptInit
    /\ CollisionInit
    /\ tts_enabled = TRUE
    /\ has_mqtt = FALSE

VisualNext == BuildVisual

\* build_visual_data applied to any short list of memories
SpecVisual == InitVisual /\ [][VisualNext]_vars

\* the objects as constructed, and a snapshot for _build_scene_desc
InitScene ==
    /\ now = StartTime
    /\ AffectInit
    /\ MemoryInit
    /\ SpeechInit
    /\ PerceptionInit
    /\ LoopInit
    /\ CollisionInit
    /\ bobs \in {ScenePending(p) : p \in SceneInputs}
    /\ tts_enabled = TRUE
    /\ has_mqtt = FALSE

SceneNext == BuildScene

\* _build_scene_desc applied to any snapshot
SpecScene == InitScene /\ [][SceneNext]_vars

\* the collision detector reading frames of any kind
SpecCollision == Init /\ [][CollisionNext]_vars

MemoryStepNext == SearchEnter \/ SearchEvict

\* search_memory followed statement by statement through its store
SpecMemorySteps == Init /\ [][MemoryStepNext]_vars

\* files whose read may fail during one fallback search
AllFiles == {FallbackFiles[i] : i \in 1..Len(FallbackFiles)}

\* one search_memory call in which the remote search may fail in any way and
\* any of the fallback files may be unreadable
SearchOutage ==
    /\ mobs.calls < MaxOutageSearches
    /\ \E query \in Queries, remote \in RemoteOutcomes,
          unreadable \in SUBSET AllFiles :
         SearchMemory(query, 1, RemoteLatency, remote, unreadable)
    /\ UNCHANGED <<affectVars, speechVars, perceptionVars, loopVars>>

OutageNext == SearchOutage

\* search_memory with an unreliable remote search and unreliable files
SpecOutage == Init /\ [][OutageNext]_vars

\* the objects as constructed, with speech on or off (--no-tts)
InitAnyTts ==
    /\ now = StartTime
    /\ AffectInit
    /\ MemoryInit
    /\ SpeechInit
    /\ PerceptionInit
    /\ LoopInit
    /\ PromptInit
    /\ CollisionInit
    /\ tts_enabled \in BOOLEAN
    /\ has_mqtt = FALSE

SpeechNext == SpeakCall \/ WorkerStep

\* speak called by the driver while the worker threads run
SpecSpeech == InitAnyTts /\ [][SpeechNext]_vars

\* the process as started, with or without the paho library
InitAnyMqtt ==
    /\ now = StartTime
    /\ AffectInit
    /\ MemoryInit
    /\ SpeechInit
    /\ PerceptionInit
    /\ LoopInit
    /\ PromptInit
    /\ CollisionInit
    /\ tts_enabled = TRUE
    /\ has_mqtt \in BOOLEAN

PerceptionNext ==
    \/ WriterAcquire \/ WriterStore \/ WriterStamp
    \/ ReaderCopy \/ ReaderAge \/ ReaderFlag \/ ReaderReturn
    \/ Tick

\* a Perception object with the transport thread calling on_mqtt_message
\* while another thread calls get_perception_data
SpecPerception == Init /\ [][PerceptionNext]_vars

LoopNext == Start \/ Cycle \/ CycleFault \/ CycleInterrupt \/ Sleep \/ Interrupt

\* the driver thread of CognitiveLoop.run; the worker threads it starts
\* share nothing with it that it reads, and are left out
SpecLoop == InitAnyMqtt /\ [][LoopNext]_vars

InboundNext == LoopNext \/ Deliver

\* the driver thread while the perception publisher sends snapshots
SpecInbound == InitAnyMqtt /\ [][InboundNext]_vars

----------------------------------------------------------------------------
(* Claims about Affect.update, checked under SpecAffect *)

\* C1: an Affect.update call with collision=true sets current_emotion to
\* startled on that same call, whatever the state before it; the debounce is
\* not applied to startled.
C1_CollisionStartlesOnSameCall ==
    (obs.calls > 0 /\ obs.collision)
        => (current_emotion = "startled" /\ obs.returned = "startled")

\* a collision call that found another emotion committed and another raw
\* value last in the history, and committed startled at once
C1_Witness ==
    /\ obs.calls > 1
    /\ obs.collision
    /\ obs.prev_emotion # "startled"
    /\ obs.prev_raw # "startled"
    /\ current_emotion = "startled"

\* C2: when the raw classification of a call is a non-startled emotion that
\* differs from current_emotion, current_emotion becomes it only if the call
\* before produced the same raw classification; otherwise current_emotion
\* keeps its value, so a raw value seen on one call alone changes nothing.
C2_DebounceNeedsTwoInARow ==
    (obs.calls > 0 /\ obs.raw # "startled" /\ obs.raw # obs.prev_emotion)
        => /\ current_emotion \in {obs.raw, obs.prev_emotion}
           /\ (current_emotion = obs.raw => obs.prev_raw = obs.raw)

\* the second of two calls with the same new raw emotion commits it
C2_Witness ==
    /\ obs.calls > 1
    /\ obs.raw \notin {"startled", obs.prev_emotion}
    /\ obs.prev_raw = obs.raw
    /\ current_emotion = obs.raw

\* C3: every update call made less than 3 seconds after a call with
\* collision=true returns startled, whatever its perception and motor inputs.
C3_StartledForThreeSeconds ==
    (obs.calls > 0 /\ obs.collided_at > 0 /\ now - obs.collided_at < 3)
        => obs.returned = "startled"

\* a call without collision, with a person in view and the motor running,
\* two seconds after the collision call: it returns startled
C3_Witness ==
    /\ obs.collided_at > 0
    /\ ~obs.collision
    /\ now - obs.collided_at = 2
    /\ obs.has_person
    /\ obs.motor_state = "running"
    /\ obs.returned = "startled"

----------------------------------------------------------------------------
(* Claims about MemoryRecall.search_memory *)

KeysOf(cache) == {cache[i].key : i \in 1..Len(cache)}

EntryOf(cache, key) == cache[CHOOSE i \in 1..Len(cache) : cache[i].key = key]

\* C4 (SpecMemory): a call whose query has the same first 80 characters
\* (KeyLen words here) as the successful call before it, made less than 30
\* seconds after that call stored its entry, returns the same result list and
\* makes no remote call; and whenever the key's entry was stored 30 seconds
\* ago or more, the call makes a remote call.  An entry still in the cache
\* and younger than 30 seconds is always returned as it is.
C4_CacheHitWithinTtl ==
    /\ (mobs.calls > 1 /\ mobs.prev_stored /\ mobs.key = mobs.prev_key
            /\ mobs.lookup_time - mobs.prev_stored_at < 30)
         => (~mobs.remote_called /\ mobs.returned = mobs.prev_returned)
    /\ (mobs.calls > 0 /\ mobs.key \in KeysOf(mobs.before))
         => IF mobs.lookup_time - EntryOf(mobs.before, mobs.key).time < 30
            THEN /\ ~mobs.remote_called
                 /\ mobs.returned = EntryOf(mobs.before, mobs.key).results
            ELSE mobs.remote_called

\* the longer query, one second after the successful search of the query it
\* shares its key with, is answered from the cache
C4_Witness ==
    /\ mobs.calls > 1
    /\ mobs.prev_stored
    /\ mobs.key = mobs.prev_key
    /\ Len(mobs.query) > KeyLen
    /\ mobs.lookup_time - mobs.prev_stored_at < 30
    /\ ~mobs.remote_called
    /\ mobs.returned = mobs.prev_returned
    /\ mobs.returned # <<>>

\* C5 (SpecMemory): when the cache holds its limit of entries (50; CacheLimit
\* here) and a search for a further distinct key is stored, exactly one entry
\* is removed, none of the entries before it was older, and all other entries
\* and the new entry remain.
C5_EvictsExactlyTheOldest ==
    (mobs.calls > 0 /\ mobs.stored /\ Len(mobs.before) = CacheLimit
        /\ mobs.key \notin KeysOf(mobs.before))
    => LET gone == KeysOf(mobs.before) \ KeysOf(recall_cache)
       IN  /\ Cardinality(gone) = 1
           /\ \A k \in gone : \A j \in 1..Len(mobs.before) :
                  EntryOf(mobs.before, k).time <= mobs.before[j].time
           /\ Len(recall_cache) = CacheLimit
           /\ \A k \in KeysOf(mobs.before) \ gone :
                  EntryOf(recall_cache, k) = EntryOf(mobs.before, k)
           /\ mobs.key \in KeysOf(recall_cache)
           /\ EntryOf(recall_cache, mobs.key).results = mobs.returned
           /\ EntryOf(recall_cache, mobs.key).time = mobs.stored_at

\* a full cache whose entries have different ages took a new key
C5_Witness ==
    /\ mobs.stored
    /\ Len(mobs.before) = CacheLimit
    /\ mobs.key \notin KeysOf(mobs.before)
    /\ \E i, j \in 1..Len(mobs.before) : mobs.before[i].time < mobs.before[j].time
    /\ Len(recall_cache) = CacheLimit
    /\ mobs.key \in KeysOf(recall_cache)

----------------------------------------------------------------------------
(* Claims about speech synthesis, checked under SpecSpeech *)

\* C8: at most one worker thread is inside the synthesis I/O (the tts_lock
\* critical section) at any time, for every interleaving of driver and
\* workers.
C8_OneSynthesisAtATime ==
    /\ Cardinality(Speaking) <= 1
    /\ \A i \in Speaking : tts_lock = i

\* one worker synthesises while another, started later, is blocked on the lock
C8_Witness ==
    \E i, j \in 1..Len(workers) :
        /\ workers[i].state = "speaking"
        /\ workers[j].state = "waiting"

----------------------------------------------------------------------------
(* Claims about the cognitive loop, checked under SpecLoop *)

\* C7: of two consecutive cycles with the same committed emotion and the same
\* monologue text that start less than 60 seconds apart, the second issues no
\* synthesis request when the first one issued one.
C7_NoRepeatedSynthesis ==
    (/\ cobs.iterations > 1
     /\ ~cobs.faulted /\ ~cobs.prev_faulted
     /\ cobs.emotion = cobs.prev_emotion
     /\ cobs.monologue = cobs.prev_monologue
     /\ cobs.start - cobs.prev_start < 60
     /\ cobs.prev_dispatched)
    => ~cobs.dispatched

\* the second cycle's slower remote search took it past the 60 second gate,
\* speak was called with the text just spoken, and nothing was dispatched
C7_Witness ==
    /\ cobs.iterations > 1
    /\ ~cobs.faulted /\ ~cobs.prev_faulted
    /\ cobs.emotion = cobs.prev_emotion
    /\ cobs.monologue = cobs.prev_monologue
    /\ cobs.start - cobs.prev_start < 60
    /\ cobs.prev_dispatched
    /\ cobs.gate
    /\ ~cobs.dispatched

\* C10: an Exception raised inside run_cycle is caught at the loop boundary:
\* the loop stays Running and goes to its sleep, and after a sleep the driver
\* starts the next cycle unless the user interrupts it.
C10_CycleFailureIsNotFatal ==
    [][/\ (cobs'.iterations = cobs.iterations + 1 /\ cobs'.faulted)
            => (running /\ running' /\ pc' = "sleep")
       /\ (pc = "sleep" /\ running /\ pc' # "sleep")
            => (pc' = "cycle" \/ interrupted')]_vars

\* a cycle ran to completion right after a cycle that raised
C10_Witness ==
    /\ cobs.iterations > 1
    /\ cobs.prev_faulted
    /\ ~cobs.faulted
    /\ cycle_count > 0
    /\ running
    /\ pc = "sleep"

----------------------------------------------------------------------------
(* Claims about starting and stopping the loop, checked under SpecLoop *)

\* C11: calling run takes the loop from Idle to Running: when the driver
\* leaves the idle state, running is true and it is about to execute a cycle,
\* with or without the transport library.
C11_StartReachesRunning ==
    [][(pc = "idle" /\ pc' # "idle") => (running' /\ pc' = "cycle")]_vars

\* C12: the loop leaves Running only at a sleep boundary: running goes from
\* true to false only while the driver is in its sleep, never inside a cycle.
C12_StopsOnlyAtSleepBoundary ==
    [][(running /\ ~running') => pc = "sleep"]_vars

----------------------------------------------------------------------------
(* Claims about one cycle of the loop, checked under SpecLoop *)

----------------------------------------------------------------------------
(* Claims about the perception snapshot *)

\* C14: a snapshot delivered on the perception topic while the loop runs is
\* stored as the Perception object's last_data, and the next cycle pulls it.
\* Checked under SpecInbound.
C14_DeliveredSnapshotIsPulled ==
    /\ (pobs.delivered_at > 0 /\ cobs.iterations = pobs.delivered_in)
          => last_data = pobs.delivered
    /\ (pobs.delivered_at > 0 /\ cobs.iterations = pobs.delivered_in + 1
          /\ cobs.reached > 1)
          => (cobs.scene = pobs.delivered.scene
              /\ cobs.has_person = pobs.delivered.has_person)

\* the updates a returned snapshot can refer to: the state as constructed,
\* or one of the snapshots stored by on_mqtt_message
StoredUpdates ==
    {[data |-> InitialData, at |-> 0]}
    \cup {pobs.stored[k] : k \in 1..Len(pobs.stored)}

\* C15: whatever the interleaving of on_mqtt_message and
\* get_perception_data, the snapshot a get_perception_data call returns and
\* the stale flag, age and placeholder scene attached to it are those of one
\* and the same update. Checked under SpecPerception.
C15_SnapshotAndFlagsFromOneUpdate ==
    reader.pc = "done" =>
        \E u \in StoredUpdates :
            /\ reader.data = IF u.at = 0
                             THEN [u.data EXCEPT !.scene = "no perception yet, eyes closed"]
                             ELSE u.data
            /\ reader.stale = (u.at > 0 /\ reader.at - u.at > STALE_AFTER)
            /\ reader.reported = IF reader.stale THEN reader.at - u.at ELSE 0

----------------------------------------------------------------------------
(* Claims about the speech gate, checked under SpecLoop *)

----------------------------------------------------------------------------
(* Claims about speak, checked under SpecSpeech *)

\* C17: speak starts the worker thread of a new synthesis only when at
\* least monologue_cooldown seconds have passed since it started the last
\* one, whatever text it is given: two dispatches are never less than the
\* cooldown apart.
C17_CooldownBetweenDispatches ==
    /\ (sobs.dispatched /\ sobs.before_time > 0)
          => sobs.at - sobs.before_time >= MONOLOGUE_COOLDOWN
    /\ (sobs.calls > 0 /\ sobs.at - sobs.before_time < MONOLOGUE_COOLDOWN)
          => (~sobs.dispatched /\ Len(workers) = sobs.before_workers)

\* a second synthesis dispatched exactly the cooldown after the first, with
\* a different text
C17_Witness ==
    /\ sobs.dispatched
    /\ sobs.before_time > 0
    /\ sobs.at - sobs.before_time = MONOLOGUE_COOLDOWN
    /\ Len(workers) = 2
    /\ workers[1].text # workers[2].text

----------------------------------------------------------------------------
(* Further claims about Affect.update, checked under SpecAffect *)

\* C18: after any number of update calls with any inputs, valence and
\* arousal are both within [0, 1] (0 to 1000 thousandths).
C18_ValenceArousalInUnitRange ==
    /\ 0 <= valence /\ valence <= 1000
    /\ 0 <= arousal /\ arousal <= 1000

\* several updates have moved both values away from where they started
C18_Witness ==
    /\ obs.calls >= 3
    /\ current_emotion = "startled"
    /\ valence < 500
    /\ arousal > 500

----------------------------------------------------------------------------
(* Claims about the output of a cycle, checked under SpecLoop *)

\* C19: every cycle that completes produces a non-empty visual prompt, each
\* of whose slots is filled, and a non-empty monologue, also when no
\* perception message was ever received, the memory search returned nothing
\* and the transport is not connected.
C19_OutputNeverEmpty ==
    (cobs.iterations > 0 /\ cobs.reached > Len(CycleSteps))
        => /\ cobs.monologue # <<>>
           /\ \A i \in 1..Len(cobs.monologue) : cobs.monologue[i] # ""
           /\ Len(cobs.sd_prompt) >= 8
           /\ \A i \in 1..Len(cobs.sd_prompt) : cobs.sd_prompt[i] # ""

\* a completed cycle with no perception ever received, a failed remote
\* search, an empty fallback result and no transport
C19_Witness ==
    /\ cobs.iterations > 0
    /\ cobs.reached > Len(CycleSteps)
    /\ last_update = 0
    /\ mobs.remote_failed
    /\ last_recall = <<>>
    /\ ~mqtt_connected
    /\ cobs.monologue = <<Opener("calm")>>
    /\ cobs.sd_prompt # <<>>

----------------------------------------------------------------------------
(* The classifier of Affect.update, checked under SpecAffect *)

\* C20: on every update call the raw emotion is that of the first rule that
\* matches, in this order: a collision within the last 3 s gives startled;
\* a person in view gives happy; a person seen within the last 30 s gives
\* excited; a running motor gives excited after more than 10 s of running
\* and curious before; otherwise lonely after more than 120 s idle, bored
\* after more than 60 s, and calm.
C20_FirstMatchingRule ==
    obs.calls > 0 =>
        LET collided == now - collision_at < 3
            person   == obs.has_person
            recent   == person_seen_at > 0 /\ now - person_seen_at < 30
            moving   == obs.motor_state = "running"
        IN  /\ collided => obs.raw = "startled"
            /\ (~collided /\ person) => obs.raw = "happy"
            /\ (~collided /\ ~person /\ recent) => obs.raw = "excited"
            /\ (~collided /\ ~person /\ ~recent /\ moving)
                  => obs.raw = IF now - moving_since > 10 THEN "excited" ELSE "curious"
            /\ (~collided /\ ~person /\ ~recent /\ ~moving)
                  => obs.raw = IF now - idle_since > 120 THEN "lonely"
                               ELSE IF now - idle_since > 60 THEN "bored"
                               ELSE "calm"

\* a call with the motor just started, no person in view, but one seen less
\* than 30 s ago: the third rule wins over the fourth
C20_Witness ==
    /\ obs.calls >= 2
    /\ obs.raw = "excited"
    /\ obs.motor_state = "running"
    /\ ~obs.has_person
    /\ now - moving_since <= 10
    /\ now - collision_at >= 3

----------------------------------------------------------------------------
(* Further claims about the recall cache *)

\* C21 (SpecMemory): the results of the local fallback search made after a
\* remote failure are stored in the cache under the query's key with the
\* current time, and a repeat of the query within 30 seconds is answered
\* from the cache without a remote attempt.
C21_FallbackResultsAreCached ==
    /\ (mobs.calls > 0 /\ mobs.remote_failed)
          => /\ mobs.key \in KeysOf(recall_cache)
             /\ EntryOf(recall_cache, mobs.key).results = mobs.returned
             /\ EntryOf(recall_cache, mobs.key).time = now
    /\ (mobs.calls > 1 /\ mobs.prev_failed /\ mobs.query = mobs.prev_query
            /\ mobs.lookup_time - mobs.prev_at < CACHE_TTL)
          => /\ ~mobs.remote_called
             /\ mobs.returned = mobs.prev_returned

\* C22 (SpecMemorySteps): in every state, the states between the store of a
\* new entry and the eviction included, the cache holds at most its limit
\* of entries (50; CacheLimit here).
C22_CacheNeverExceedsLimit ==
    Len(recall_cache) <= CacheLimit

\* C23 (SpecMemory): a cache hit leaves the cache exactly as it was, time
\* stamps and order included, so a read never protects an entry: the entry
\* deleted by a later store is the one stored earliest, even when it is the
\* entry that was read last.
C23_HitLeavesCacheUnchanged ==
    /\ (mobs.calls > 0 /\ ~mobs.remote_called) => recall_cache = mobs.before
    /\ (mobs.stored /\ Len(recall_cache) < Len(mobs.before) + 1
            /\ mobs.key \notin KeysOf(mobs.before))
          => \E k \in KeysOf(mobs.before) \ KeysOf(recall_cache) :
                \A j \in KeysOf(mobs.before) :
                    EntryOf(mobs.before, k).time <= EntryOf(mobs.before, j).time

\* a store deletes the entry that the call before it had just read
C23_Witness ==
    /\ mobs.stored
    /\ mobs.prev_hit
    /\ mobs.prev_key \in KeysOf(mobs.before)
    /\ mobs.prev_key \notin KeysOf(recall_cache)

\* C24 (SpecMemory): two different queries with the same first 80
\* characters (KeyLen words here) share one cache entry: the second, looked
\* up less than 30 seconds after the first was stored, returns the first
\* one's results and no remote search is made.
C24_SharedPrefixSharesEntry ==
    (/\ mobs.calls > 1
     /\ mobs.query # mobs.prev_query
     /\ SubSeq(mobs.query, 1, KeyLen) = SubSeq(mobs.prev_query, 1, KeyLen)
     /\ Len(mobs.query) >= KeyLen
     /\ mobs.prev_stored
     /\ mobs.lookup_time - mobs.prev_stored_at < CACHE_TTL)
        => /\ ~mobs.remote_called
           /\ mobs.returned = mobs.prev_returned
           /\ recall_cache = mobs.before

C24_Witness ==
    /\ mobs.calls > 1
    /\ mobs.query # mobs.prev_query
    /\ mobs.key = mobs.prev_key
    /\ mobs.prev_stored
    /\ mobs.lookup_time - mobs.prev_stored_at < CACHE_TTL
    /\ ~mobs.remote_called
    /\ mobs.returned # <<>>

----------------------------------------------------------------------------
(* Further claims about speak *)

\* C25 (SpecSpeech): speak never dispatches a synthesis whose text equals
\* the text of the synthesis dispatched last, however long ago that was:
\* consecutive worker threads never carry the same text, and a call that
\* repeats the last dispatched text is refused whatever its time.
C25_NeverRepeatsLastDispatched ==
    /\ \A i \in 2..Len(workers) : workers[i].text # workers[i - 1].text
    /\ (sobs.calls > 0 /\ sobs.text = sobs.before_text) => ~sobs.dispatched
    /\ sobs.dispatched => last_monologue = sobs.text

\* a repeat of the last dispatched text arrives with the cooldown over, and
\* no thread is started for it
C25_Witness ==
    /\ sobs.calls > 1
    /\ sobs.text # <<>>
    /\ sobs.text = sobs.before_text
    /\ sobs.before_time > 0
    /\ sobs.at - sobs.before_time >= 2 * MONOLOGUE_COOLDOWN
    /\ tts_enabled
    /\ ~sobs.dispatched
    /\ Len(workers) = sobs.before_workers

----------------------------------------------------------------------------
(* Further claims about the motor timers of Affect *)

\* C28 (SpecAffect): after construction and after every update exactly one
\* of moving_since and idle_since is non-zero.
C28_ExactlyOneTimerRuns ==
    (moving_since = 0) # (idle_since = 0)

\* an update has started the moving timer and zeroed the idle timer
C28_Witness ==
    /\ obs.calls > 0
    /\ obs.motor_state = "running"
    /\ moving_since # 0
    /\ idle_since = 0

\* C29 (SpecAffect): only a change of motor state resets a timer. When an
\* update reports a state other than the one before it (stopped after
\* construction), the timer of the new state is set to the time of the call
\* and the other timer to zero; when it reports the same state, both timers
\* keep their values.
C29_OnlyTransitionResetsTimer ==
    [][obs'.calls = obs.calls + 1 =>
         LET wasRunning == obs.calls > 0 /\ obs.motor_state = "running"
             isRunning  == obs'.motor_state = "running"
         IN  IF wasRunning = isRunning
             THEN moving_since' = moving_since /\ idle_since' = idle_since
             ELSE IF isRunning
                  THEN moving_since' = now' /\ idle_since' = 0
                  ELSE idle_since' = now' /\ moving_since' = 0]_vars

\* a second consecutive update with the motor running finds the moving timer
\* already started and leaves it
C29_Witness ==
    /\ obs.calls > 1
    /\ obs.motor_state = "running"
    /\ moving_since # 0
    /\ moving_since < now
    /\ idle_since = 0

----------------------------------------------------------------------------
(* Claims about build_visual_data *)

\* the table entries whose keywords occur in the text of a memory
MatchingEntries(mem) ==
    {i \in 1..Len(VisualMappings) :
        VisualMappings[i].keywords \cap TextWords(mem.text) # {}}

\* C30 (SpecVisual): for each of the top 3 memories only the first table
\* entry whose keywords match the memory's text can add a visual phrase; a
\* later entry of the table never adds one for that memory.
C30_OnlyFirstMatchContributes ==
    vobs.calls > 0 =>
        \A k \in 1..Len(vobs.steps) :
            \A i \in MatchingEntries(vobs.memories[k]) :
                (vobs.steps[k] = <<VisualMappings[i].visual>>)
                    => \A j \in MatchingEntries(vobs.memories[k]) : i <= j

----------------------------------------------------------------------------
(* Claims about the order of the publishes *)

\* C26 (SpecLoop): the publishes of one cycle are issued in the order
\* prompt, affect, perception and then, only when the speech gate is open,
\* monologue; and every publish of a cycle is issued before any publish of
\* a later cycle.
C26_PublishOrder ==
    /\ cobs.published \in
          {<<>>,
           <<"vision_pal/prompt/current", "vision_pal/affect/state",
             "vision_pal/perception/objects">>,
           <<"vision_pal/prompt/current", "vision_pal/affect/state",
             "vision_pal/perception/objects", "vision_pal/monologue">>}
    /\ (\E i \in 1..Len(cobs.published) :
            cobs.published[i] = "vision_pal/monologue") => cobs.gate
    /\ (cobs.gate /\ ~cobs.faulted /\ ~cobs.aborted)
          => Len(cobs.published) = 4
    /\ \A i, j \in 1..Len(cobs.log) :
          i < j => cobs.log[i].cycle <= cobs.log[j].cycle

\* a cycle with the gate open has issued its four publishes after those of
\* an earlier cycle that issued three
C26_Witness ==
    /\ cobs.iterations > 1
    /\ Len(cobs.published) = 4
    /\ \E n \in 1..(cobs.iterations - 1) :
          Cardinality({i \in 1..Len(cobs.log) : cobs.log[i].cycle = n}) = 3

----------------------------------------------------------------------------
(* Claims about the stale flag *)

\* C27 (SpecPerception): a pull made when no update has arrived in the 10
\* seconds before it returns a snapshot with the stale flag and its age; a
\* pull made when an update has arrived in those 10 seconds returns a
\* snapshot without the flag.
C27_StaleFlagFollowsLastArrival ==
    reader.pc = "done" =>
        LET recent == \E i \in 1..Len(pobs.stored) :
                          pobs.stored[i].at >= reader.at - STALE_AFTER
        IN  /\ reader.stale = ~recent
            /\ reader.stale => reader.reported > STALE_AFTER

\* C31 (SpecVisual): the visual description build_visual_data returns
\* never contains the same phrase twice, whatever the list of memories.
C31_NoPhraseTwice ==
    vobs.calls > 0 =>
        \A i, j \in 1..Len(vobs.result.visual_description) :
            i # j => vobs.result.visual_description[i]
                        # vobs.result.visual_description[j]

\* C32 (SpecVisual): a memory adds the generic echo phrase only when its
\* score is above 0.4 and its text matches no keyword set of the table; a
\* memory whose text matches some keyword set never adds it.
C32_EchoOnlyWithoutMatch ==
    vobs.calls > 0 =>
        \A k \in 1..Len(vobs.steps) :
            vobs.steps[k] = <<"faint memory traces, ghostly echoes of the past">>
                => /\ vobs.memories[k].score > 400
                   /\ MatchingEntries(vobs.memories[k]) = {}

\* C33 (SpecVisual): memory_strength is the mean of the scores of the first
\* min(3, n) memories, to the nearest thousandth; with no memories the
\* result is the blank-slate description, strength 0 and an empty list.
C33_StrengthIsMeanOfTopThree ==
    vobs.calls > 0 =>
        LET n   == IF Len(vobs.memories) < 3 THEN Len(vobs.memories) ELSE 3
            sum == SumScores(SubSeq(vobs.memories, 1, n))
            d   == n * vobs.result.memory_strength - sum
        IN  IF n = 0
            THEN /\ vobs.result.memory_strength = 0
                 /\ vobs.result.memories = <<>>
                 /\ vobs.result.visual_description
                        = <<"no memories surfacing, blank slate, pristine">>
            ELSE /\ 2 * d <= n
                 /\ 2 * d >= 0 - n
                 /\ vobs.result.memories = SubSeq(vobs.memories, 1, n)

\* of four memories only the first three are averaged, and their mean is
\* not a whole number of thousandths
C33_Witness ==
    /\ vobs.calls > 0
    /\ Len(vobs.memories) = 4
    /\ vobs.memories[4].score # vobs.memories[1].score
    /\ vobs.memories[1].score # vobs.memories[2].score
    /\ 3 * vobs.result.memory_strength
          # vobs.memories[1].score + vobs.memories[2].score + vobs.memories[3].score

----------------------------------------------------------------------------
(* Claims about the scene description *)

\* the phrases of a scene description
ScenePhrases == {bobs.parts[i] : i \in 1..Len(bobs.parts)}

\* C34 (SpecScene): person presence takes priority over the object count:
\* when has_person is true the description has the person phrase and no
\* phrase for the object count, and the empty-void phrase appears only
\* when no person is present.
C34_PersonBeforeObjectCount ==
    bobs.calls > 0 =>
        /\ bobs.perception.has_person
              => /\ "warm human presence nearby" \in ScenePhrases
                 /\ "empty void, nothing detected" \notin ScenePhrases
                 /\ "rich complex environment" \notin ScenePhrases
        /\ "empty void, nothing detected" \in ScenePhrases
              => ~bobs.perception.has_person

\* C34 (SpecScene), as the code has it: the phrases are added independently
\* of one another. The person phrase appears exactly when has_person is
\* true, the empty-void phrase exactly when object_count is 0 and the
\* rich-environment phrase exactly when object_count is above 5, with or
\* without a person; "abstract digital space" appears exactly when there
\* is no other part.
C34_PhrasesAreIndependent ==
    bobs.calls > 0 =>
        LET p == bobs.perception
        IN  /\ ("warm human presence nearby" \in ScenePhrases) = p.has_person
            /\ ("empty void, nothing detected" \in ScenePhrases)
                  = (p.object_count = 0)
            /\ ("rich complex environment" \in ScenePhrases)
                  = (p.object_count > 5)
            /\ ("abstract digital space" \in ScenePhrases)
                  = (/\ p.scene = ""
                     /\ p.objects = <<>>
                     /\ ~p.has_person
                     /\ p.object_count \in 1..5)

\* a snapshot with a person and no object gets both phrases
C34_Witness ==
    /\ bobs.calls > 0
    /\ bobs.perception.has_person
    /\ bobs.perception.object_count = 0
    /\ "warm human presence nearby" \in ScenePhrases
    /\ "empty void, nothing detected" \in ScenePhrases

----------------------------------------------------------------------------
(* Claims about the rate of the monologue *)

\* C35 (SpecLoop): while the committed emotion stays the same from cycle to
\* cycle, two consecutive publishes on the monologue topic are at least 60
\* seconds apart.
C35_MonologueRateLimited ==
    (/\ Len(cobs.published) = 4
     /\ cobs.steady
     /\ cobs.mono_prev > 0)
        => cobs.gate_at - cobs.mono_prev >= GATE_INTERVAL

\* C36 (SpecSpeech): a speak call that rejects its request (speech off,
\* empty text, cooldown not over, or the text of the last dispatch) leaves
\* last_monologue and last_monologue_time as they were and starts no
\* worker; the two change only in a call that dispatches, which has written
\* them when its worker exists.
C36_RejectionWritesNothing ==
    [][/\ (sobs'.calls = sobs.calls + 1 /\ ~sobs'.dispatched)
             => /\ last_monologue' = last_monologue
                /\ last_monologue_time' = last_monologue_time
                /\ workers' = workers
       /\ (sobs'.calls = sobs.calls + 1 /\ sobs'.dispatched)
             => /\ last_monologue' = sobs'.text
                /\ last_monologue_time' = sobs'.at
                /\ Len(workers') = Len(workers) + 1
                /\ workers'[Len(workers')].text = last_monologue'
       /\ (last_monologue' # last_monologue
              \/ last_monologue_time' # last_monologue_time)
             => (sobs'.calls = sobs.calls + 1 /\ sobs'.dispatched)]_vars

\* a new text arrives inside the cooldown of an earlier dispatch and is
\* rejected, with the last spoken text and time kept and no worker started
C36_Witness ==
    /\ sobs.calls > 1
    /\ tts_enabled
    /\ sobs.text # <<>>
    /\ sobs.text # sobs.before_text
    /\ sobs.before_text # <<>>
    /\ sobs.at - sobs.before_time < MONOLOGUE_COOLDOWN
    /\ ~sobs.dispatched
    /\ last_monologue = sobs.before_text
    /\ last_monologue_time = sobs.before_time
    /\ Len(workers) = sobs.before_workers

----------------------------------------------------------------------------
(* Claims about the emotions the loop can reach *)

\* C37 (SpecLoop): driven through run_cycle only, Affect.update is always
\* called with collision false and a motor state other than running, and
\* the committed emotion is never startled and never curious.
C37_LoopNeverStartledNorCurious ==
    /\ current_emotion \notin {"startled", "curious"}
    /\ cobs.emotion \notin {"startled", "curious"}
    /\ obs.calls > 0 => (~obs.collision /\ obs.motor_state # "running"
                           /\ obs.raw \notin {"startled", "curious"})
    /\ collision_at = 0
    /\ moving_since = 0

\* the loop has called update in three cycles and the emotion has moved on
\* from calm to bored
C37_Witness ==
    /\ obs.calls > 2
    /\ cobs.iterations > 2
    /\ ~obs.collision
    /\ obs.motor_state # "running"
    /\ current_emotion = "bored"

----------------------------------------------------------------------------
(* Claims about invalid perception payloads *)

\* C38 (SpecPerception): a payload that is not a perception record, be it
\* text that does not parse or JSON that is not an object, leaves the
\* stored snapshot and its time as they were, so the stored snapshot is
\* always a mapping and no get_perception_data call raises.
C38_InvalidPayloadIgnored ==
    /\ IsMapping(last_data)
    /\ \A k \in 1..Len(pobs.stored) : IsMapping(pobs.stored[k].data)
    /\ reader.pc # "raised"

----------------------------------------------------------------------------
(* Claims about the collision detector *)

\* C39 (SpecCollision): a collision is reported only when the last 3
\* checked frames all had a difference below the threshold with the motor
\* running; a checked frame at or above the threshold, or with the motor
\* not running, sets the still counter to 0; a report sets the counter to 0
\* and starts a cooldown in which the next 30 frames report nothing.
C39_ReportAfterThreeStillFrames ==
    /\ kobs.reported
          => /\ Len(kobs.recent) = COLLISION_FRAMES
             /\ \A i \in 1..Len(kobs.recent) :
                   /\ kobs.recent[i].diff < COLLISION_THRESHOLD
                   /\ kobs.recent[i].motor
                   /\ i < Len(kobs.recent) => ~kobs.recent[i].reported
             /\ still_count = 0
             /\ collision_cooldown = COLLISION_COOLDOWN
    /\ (kobs.kind = "checked"
           /\ (kobs.diff >= COLLISION_THRESHOLD \/ ~kobs.motor))
          => (still_count = 0 /\ ~kobs.reported)
    /\ (kobs.reported /\ kobs.reports > 1)
          => kobs.gap > COLLISION_COOLDOWN
    /\ collision_cooldown > 0 => still_count = 0
    /\ still_count < COLLISION_FRAMES

\* a second collision is reported, on the 33rd frame after the first
C39_Witness ==
    /\ kobs.reported
    /\ kobs.reports > 1
    /\ kobs.gap = COLLISION_COOLDOWN + COLLISION_FRAMES

====
